---- MODULE Spec2Model ----
(***************************************************************************)
(* Model of the DAT parsing / region filtering engine of the Redump DAT    *)
(* filter (src/shared/datParser.ts, kept here as src/unnamed/part_002).    *)
(*                                                                         *)
(* A JavaScript string is a sequence of one-character strings, so that the *)
(* text operations of the source (trim, split, regular expressions,        *)
(* template literals) are computed and not assumed.  A JavaScript object   *)
(* is the sequence of its [k, v] entries in insertion order.               *)
(***************************************************************************)
EXTENDS Integers, Sequences, FiniteSets, TLC

(***************************************************************************)
(* Strings                                                                 *)
(***************************************************************************)

\* The values undefined and null of an optional string.
Undefined == <<"undefined">>
Null == <<"null">>

Nullish(v) == v = Undefined \/ v = Null

\* !value of a string | undefined | null
Falsy(v) == Nullish(v) \/ v = <<>>

\* a ?? b
Coalesce(a, b) == IF Nullish(a) THEN b ELSE a

\* The characters \s of the regular expressions matches.
IsSpace(c) == c \in {" ", "\t"}

IsDigit(c) == c \in {"0", "1", "2", "3", "4", "5", "6", "7", "8", "9"}

UpperCase == <<"A","B","C","D","E","F","G","H","I","J","K","L","M","N","O","P","Q","R","S","T","U","V","W","X","Y","Z">>

LowerCase == <<"a","b","c","d","e","f","g","h","i","j","k","l","m","n","o","p","q","r","s","t","u","v","w","x","y","z">>

toLowerChar(c) ==
  IF \E i \in DOMAIN UpperCase : UpperCase[i] = c
  THEN LowerCase[CHOOSE i \in DOMAIN UpperCase : UpperCase[i] = c]
  ELSE c

\* String.prototype.toLowerCase
toLowerCase(s) == [i \in 1..Len(s) |-> toLowerChar(s[i])]

RECURSIVE trimStart(_)
trimStart(s) == IF s # <<>> /\ IsSpace(Head(s)) THEN trimStart(Tail(s)) ELSE s

RECURSIVE trimEnd(_)
trimEnd(s) ==
  IF s # <<>> /\ IsSpace(s[Len(s)]) THEN trimEnd(SubSeq(s, 1, Len(s) - 1)) ELSE s

\* String.prototype.trim
trim(s) == trimEnd(trimStart(s))

\* replace(/\.+/g, '')
removeDots(s) == SelectSeq(s, LAMBDA c : c # ".")

\* replace(/\s+/g, ' ')
RECURSIVE collapseWhitespace(_)
collapseWhitespace(s) ==
  IF s = <<>> THEN <<>>
  ELSE IF IsSpace(Head(s)) THEN <<" ">> \o collapseWhitespace(trimStart(s))
  ELSE <<Head(s)>> \o collapseWhitespace(Tail(s))

\* split(/[...]/g) on single separator characters
RECURSIVE splitChars(_, _)
splitChars(s, seps) ==
  IF \A i \in 1..Len(s) : s[i] \notin seps THEN <<s>>
  ELSE LET i == CHOOSE i \in 1..Len(s) :
                  s[i] \in seps /\ \A j \in 1..(i - 1) : s[j] \notin seps
       IN <<SubSeq(s, 1, i - 1)>> \o splitChars(SubSeq(s, i + 1, Len(s)), seps)

\* split(/\s{2,}/g)
RECURSIVE splitWideGaps(_)
splitWideGaps(s) ==
  LET gaps == {i \in 1..(Len(s) - 1) : IsSpace(s[i]) /\ IsSpace(s[i + 1])}
  IN IF gaps = {} THEN <<s>>
     ELSE LET i == CHOOSE i \in gaps : \A j \in gaps : i <= j
              rest == trimStart(SubSeq(s, i, Len(s)))
          IN <<SubSeq(s, 1, i - 1)>> \o splitWideGaps(rest)

\* Array.prototype.map
Map(seq, Op(_)) == [i \in 1..Len(seq) |-> Op(seq[i])]

\* Array.prototype.flatMap / flattening a list of lists
RECURSIVE Flatten(_)
Flatten(seqs) == IF seqs = <<>> THEN <<>> ELSE Head(seqs) \o Flatten(Tail(seqs))

\* Array.from(new Set(list)): duplicates removed, first occurrence kept
RECURSIVE unique(_)
unique(seq) ==
  IF seq = <<>> THEN <<>>
  ELSE LET init == unique(SubSeq(seq, 1, Len(seq) - 1))
           last == seq[Len(seq)]
       IN IF \E i \in 1..Len(init) : init[i] = last THEN init ELSE Append(init, last)

\* Array.prototype.join
RECURSIVE join(_, _)
join(seq, sep) ==
  IF seq = <<>> THEN <<>>
  ELSE IF Len(seq) = 1 THEN seq[1]
  ELSE seq[1] \o sep \o join(Tail(seq), sep)

\* String(n) of a non-negative integer
RECURSIVE String(_)
String(n) ==
  LET digit == <<"0", "1", "2", "3", "4", "5", "6", "7", "8", "9">>[(n % 10) + 1]
  IN IF n < 10 THEN <<digit>> ELSE Append(String(n \div 10), digit)

(***************************************************************************)
(* Region vocabulary                                                       *)
(***************************************************************************)

REGION_SYNONYMS ==
     (<<"w","o","r","l","d">> :> <<"W","o","r","l","d">>)
  @@ (<<"w","o","r","l","d","w","i","d","e">> :> <<"W","o","r","l","d">>)
  @@ (<<"u","s","a">> :> <<"U","S","A">>)
  @@ (<<"u",".","s",".","a",".">> :> <<"U","S","A">>)
  @@ (<<"u","s">> :> <<"U","S","A">>)
  @@ (<<"u",".","s",".">> :> <<"U","S","A">>)
  @@ (<<"n","o","r","t","h"," ","a","m","e","r","i","c","a">> :> <<"U","S","A">>)
  @@ (<<"e","u","r","o","p","e">> :> <<"E","u","r","o","p","e">>)
  @@ (<<"e","u","r">> :> <<"E","u","r","o","p","e">>)
  @@ (<<"p","a","l">> :> <<"E","u","r","o","p","e">>)
  @@ (<<"j","a","p","a","n">> :> <<"J","a","p","a","n">>)
  @@ (<<"j","p","n">> :> <<"J","a","p","a","n">>)
  @@ (<<"a","s","i","a">> :> <<"A","s","i","a">>)
  @@ (<<"a","s","i","a"," ","p","a","c","i","f","i","c">> :> <<"A","s","i","a">>)
  @@ (<<"a","s","i","a","-","p","a","c","i","f","i","c">> :> <<"A","s","i","a">>)
  @@ (<<"a","u","s","t","r","a","l","i","a">> :> <<"A","u","s","t","r","a","l","i","a">>)
  @@ (<<"a","u","s","t","r","a","l","a","s","i","a">> :> <<"A","u","s","t","r","a","l","i","a">>)
  @@ (<<"b","r","a","z","i","l">> :> <<"B","r","a","z","i","l">>)
  @@ (<<"c","a","n","a","d","a">> :> <<"C","a","n","a","d","a">>)
  @@ (<<"c","h","i","n","a">> :> <<"C","h","i","n","a">>)
  @@ (<<"d","e","n","m","a","r","k">> :> <<"D","e","n","m","a","r","k">>)
  @@ (<<"f","i","n","l","a","n","d">> :> <<"F","i","n","l","a","n","d">>)
  @@ (<<"f","r","a","n","c","e">> :> <<"F","r","a","n","c","e">>)
  @@ (<<"g","e","r","m","a","n","y">> :> <<"G","e","r","m","a","n","y">>)
  @@ (<<"h","o","n","g"," ","k","o","n","g">> :> <<"H","o","n","g"," ","K","o","n","g">>)
  @@ (<<"i","t","a","l","y">> :> <<"I","t","a","l","y">>)
  @@ (<<"k","o","r","e","a">> :> <<"K","o","r","e","a">>)
  @@ (<<"s","o","u","t","h"," ","k","o","r","e","a">> :> <<"K","o","r","e","a">>)
  @@ (<<"r","e","p","u","b","l","i","c"," ","o","f"," ","k","o","r","e","a">> :> <<"K","o","r","e","a">>)
  @@ (<<"m","e","x","i","c","o">> :> <<"M","e","x","i","c","o">>)
  @@ (<<"n","e","t","h","e","r","l","a","n","d","s">> :> <<"N","e","t","h","e","r","l","a","n","d","s">>)
  @@ (<<"n","e","w"," ","z","e","a","l","a","n","d">> :> <<"N","e","w"," ","Z","e","a","l","a","n","d">>)
  @@ (<<"n","o","r","w","a","y">> :> <<"N","o","r","w","a","y">>)
  @@ (<<"r","u","s","s","i","a">> :> <<"R","u","s","s","i","a">>)
  @@ (<<"s","p","a","i","n">> :> <<"S","p","a","i","n">>)
  @@ (<<"s","w","e","d","e","n">> :> <<"S","w","e","d","e","n">>)
  @@ (<<"s","w","i","t","z","e","r","l","a","n","d">> :> <<"S","w","i","t","z","e","r","l","a","n","d">>)
  @@ (<<"t","a","i","w","a","n">> :> <<"T","a","i","w","a","n">>)
  @@ (<<"u","k">> :> <<"U","n","i","t","e","d"," ","K","i","n","g","d","o","m">>)
  @@ (<<"u","n","i","t","e","d"," ","k","i","n","g","d","o","m">> :> <<"U","n","i","t","e","d"," ","K","i","n","g","d","o","m">>)
  @@ (<<"e","n","g","l","a","n","d">> :> <<"U","n","i","t","e","d"," ","K","i","n","g","d","o","m">>)
  @@ (<<"i","r","e","l","a","n","d">> :> <<"I","r","e","l","a","n","d">>)
  @@ (<<"p","o","l","a","n","d">> :> <<"P","o","l","a","n","d">>)
  @@ (<<"p","o","r","t","u","g","a","l">> :> <<"P","o","r","t","u","g","a","l">>)
  @@ (<<"b","e","l","g","i","u","m">> :> <<"B","e","l","g","i","u","m">>)
  @@ (<<"g","r","e","e","c","e">> :> <<"G","r","e","e","c","e">>)
  @@ (<<"c","z","e","c","h"," ","r","e","p","u","b","l","i","c">> :> <<"C","z","e","c","h"," ","R","e","p","u","b","l","i","c">>)
  @@ (<<"s","o","u","t","h"," ","a","f","r","i","c","a">> :> <<"S","o","u","t","h"," ","A","f","r","i","c","a">>)
  @@ (<<"l","a","t","i","n"," ","a","m","e","r","i","c","a">> :> <<"L","a","t","i","n"," ","A","m","e","r","i","c","a">>)
  @@ (<<"m","i","d","d","l","e"," ","e","a","s","t">> :> <<"M","i","d","d","l","e"," ","E","a","s","t">>)
  @@ (<<"a","f","r","i","c","a">> :> <<"A","f","r","i","c","a">>)
  @@ (<<"a","s","i","a"," ","m","i","n","o","r">> :> <<"A","s","i","a">>)
  @@ (<<"u","n","i","t","e","d"," ","s","t","a","t","e","s">> :> <<"U","S","A">>)

DEFAULT_REGION == <<"U","n","k","n","o","w","n">>

CANONICAL_REGIONS ==
  {REGION_SYNONYMS[k] : k \in DOMAIN REGION_SYNONYMS} \cup {DEFAULT_REGION}

normalizeRegionToken(token) ==
  IF Falsy(token) THEN Null
  ELSE LET cleaned == trim(collapseWhitespace(removeDots(token)))
           lower == toLowerCase(cleaned)
       IN IF cleaned = <<>> THEN Null
          ELSE IF lower \in DOMAIN REGION_SYNONYMS THEN REGION_SYNONYMS[lower]
          ELSE IF cleaned \in CANONICAL_REGIONS THEN cleaned
          ELSE Null

tokenizeRegionSegment(segment) ==
  LET parts == Map(splitChars(segment, {"/", ",", "&"}), trim)
      pieces == Map(Flatten(Map(parts, splitWideGaps)), trim)
  IN SelectSeq(pieces, LAMBDA part : part # <<>>)

\* The capture groups of input.matchAll(/\(([^()]+)\)/g), left to right.
RECURSIVE parenGroups(_)
parenGroups(s) ==
  LET closes(i) == {j \in (i + 2)..Len(s) :
                      s[j] = ")" /\ \A k \in (i + 1)..(j - 1) : s[k] \notin {"(", ")"}}
      opens == {i \in 1..Len(s) : s[i] = "(" /\ closes(i) # {}}
  IN IF opens = {} THEN <<>>
     ELSE LET i == CHOOSE i \in opens : \A k \in opens : i <= k
              j == CHOOSE j \in closes(i) : TRUE
          IN <<SubSeq(s, i + 1, j - 1)>> \o parenGroups(SubSeq(s, j + 1, Len(s)))

\* The result of extractRegions: null, or a list of labels.
NoRegions == [found |-> FALSE, list |-> <<>>]

\* firstRecognizedGroup scanning the groups from the right
RECURSIVE lastRecognizedGroup(_)
lastRecognizedGroup(groups) ==
  IF groups = <<>> THEN NoRegions
  ELSE LET tokens == tokenizeRegionSegment(groups[Len(groups)])
           normalizedTokens ==
             SelectSeq(Map(tokens, normalizeRegionToken), LAMBDA t : t # Null)
       IN IF normalizedTokens # <<>>
          THEN [found |-> TRUE, list |-> unique(normalizedTokens)]
          ELSE lastRecognizedGroup(SubSeq(groups, 1, Len(groups) - 1))

RECURSIVE firstRecognizedGroup(_)
firstRecognizedGroup(groups) ==
  IF groups = <<>> THEN NoRegions
  ELSE LET tokens == tokenizeRegionSegment(Head(groups))
           normalizedTokens ==
             SelectSeq(Map(tokens, normalizeRegionToken), LAMBDA t : t # Null)
       IN IF normalizedTokens # <<>>
          THEN [found |-> TRUE, list |-> unique(normalizedTokens)]
          ELSE firstRecognizedGroup(Tail(groups))

extractRegions(input) ==
  IF Falsy(input) THEN NoRegions ELSE firstRecognizedGroup(parenGroups(input))

(***************************************************************************)
(* The tree returned by the XML parser                                     *)
(*                                                                         *)
(* A value of the tree is a string, a boolean (an attribute without a      *)
(* value, allowBooleanAttributes), undefined (a missing property), an      *)
(* array (a repeated element) or an object (an element with attributes or  *)
(* children).  parseTagValue and parseAttributeValue are off, so no number *)
(* occurs.                                                                 *)
(***************************************************************************)

RawString(s) == [t |-> "string", s |-> s, a |-> <<>>, o |-> <<>>]

RawBoolean(b) ==
  [t |-> "boolean", s |-> IF b THEN <<"t","r","u","e">> ELSE <<"f","a","l","s","e">>, a |-> <<>>, o |-> <<>>]

RawUndefined == [t |-> "undefined", s |-> <<>>, a |-> <<>>, o |-> <<>>]

RawArray(items) == [t |-> "array", s |-> <<>>, a |-> items, o |-> <<>>]

RawObject(entries) == [t |-> "object", s |-> <<>>, a |-> <<>>, o |-> entries]

Entry(key, value) == [k |-> key, v |-> value]

\* key in object
HasKey(entries, key) == \E i \in 1..Len(entries) : entries[i].k = key

\* object[key] of a list of entries
Lookup(entries, key, default) ==
  IF HasKey(entries, key)
  THEN entries[CHOOSE i \in 1..Len(entries) : entries[i].k = key].v
  ELSE default

\* Object.entries(value)
ObjectEntries(value) ==
  CASE value.t = "object" -> value.o
    [] value.t = "array" ->
         [i \in 1..Len(value.a) |-> Entry(String(i - 1), value.a[i])]
    [] value.t = "string" ->
         [i \in 1..Len(value.s) |-> Entry(String(i - 1), RawString(<<value.s[i]>>))]
    [] OTHER -> <<>>

\* value[key], for the property names the parser can produce
Get(value, key) ==
  IF value.t = "object" THEN Lookup(value.o, key, RawUndefined) ELSE RawUndefined

\* !value
RawFalsy(value) ==
  \/ value.t = "undefined"
  \/ value.t = "string" /\ value.s = <<>>
  \/ value.t = "boolean" /\ value.s = <<"f","a","l","s","e">>

RECURSIVE coerceText(_)
coerceText(value) ==
  CASE value.t = "undefined" -> <<>>
    [] value.t = "string" -> value.s
    [] value.t = "boolean" -> value.s
    [] value.t = "array" -> IF Len(value.a) > 0 THEN coerceText(value.a[1]) ELSE <<>>
    [] value.t = "object" ->
         IF HasKey(value.o, <<"#","t","e","x","t">>)
         THEN coerceText(Lookup(value.o, <<"#","t","e","x","t">>, RawUndefined))
         ELSE <<>>

toArray(value) ==
  CASE value.t = "array" -> value.a
    [] value.t = "undefined" -> <<>>
    [] OTHER -> <<value>>

(***************************************************************************)
(* Header                                                                  *)
(***************************************************************************)

\* The fields of DatHeader that normalizeHeader recognizes.
KnownHeaderKeys ==
  <<<<"n","a","m","e">>, <<"d","e","s","c","r","i","p","t","i","o","n">>, <<"v","e","r","s","i","o","n">>, <<"d","a","t","e">>, <<"a","u","t","h","o","r">>, <<"h","o","m","e","p","a","g","e">>, <<"u","r","l">>>>

IsKnownHeaderKey(key) == \E i \in DOMAIN KnownHeaderKeys : KnownHeaderKeys[i] = key

\* A thrown Error, by the condition that throws it.
InvalidFormat == "InvalidFormat"
NoMatches == "NoMatches"

\* The header that the loop of normalizeHeader builds.
headerOfEntries(entries) ==
  LET text(key, default) ==
        IF HasKey(entries, key)
        THEN coerceText(Lookup(entries, key, RawUndefined))
        ELSE default
      others == SelectSeq(entries, LAMBDA e : ~IsKnownHeaderKey(e.k))
  IN [name |-> text(<<"n","a","m","e">>, <<>>),
      description |-> text(<<"d","e","s","c","r","i","p","t","i","o","n">>, Undefined),
      version |-> text(<<"v","e","r","s","i","o","n">>, Undefined),
      date |-> text(<<"d","a","t","e">>, Undefined),
      author |-> text(<<"a","u","t","h","o","r">>, Undefined),
      homepage |-> text(<<"h","o","m","e","p","a","g","e">>, Undefined),
      url |-> text(<<"u","r","l">>, Undefined),
      extra |-> [i \in 1..Len(others) |-> Entry(others[i].k, coerceText(others[i].v))]]

\* normalizeHeader without the check of the name
normalizeHeaderUnchecked(rawHeader) ==
  [error |-> "none", header |-> headerOfEntries(ObjectEntries(rawHeader))]

normalizeHeader(rawHeader) ==
  LET header == headerOfEntries(ObjectEntries(rawHeader))
  IN IF Falsy(header.name)
     THEN [error |-> InvalidFormat, header |-> header]
     ELSE [error |-> "none", header |-> header]

(***************************************************************************)
(* Entries                                                                 *)
(***************************************************************************)

startsWith(s, prefix) ==
  Len(prefix) <= Len(s) /\ SubSeq(s, 1, Len(prefix)) = prefix

mapRomAttributes(rawRom) ==
  IF RawFalsy(rawRom) THEN <<>>
  ELSE LET attrs == SelectSeq(ObjectEntries(rawRom), LAMBDA e : startsWith(e.k, <<"@","_">>))
       IN [i \in 1..Len(attrs) |->
             Entry(SubSeq(attrs[i].k, 3, Len(attrs[i].k)), coerceText(attrs[i].v))]

\* normalizeGame that merges the regions of the three sources
normalizeGameMerging(rawGame) ==
  LET nameAttr == Get(rawGame, <<"@","_","n","a","m","e">>)
      name == IF nameAttr.t = "string" THEN nameAttr.s
              ELSE coerceText(Get(rawGame, <<"n","a","m","e">>))
      description == coerceText(Get(rawGame, <<"d","e","s","c","r","i","p","t","i","o","n">>))
      category == coerceText(Get(rawGame, <<"c","a","t","e","g","o","r","y">>))
      rawRoms == toArray(Get(rawGame, <<"r","o","m">>))
      romEntries == [i \in 1..Len(rawRoms) |-> [attributes |-> mapRomAttributes(rawRoms[i])]]
      fromName == extractRegions(name)
      fromDescription == extractRegions(description)
      fromRom == IF Len(romEntries) > 0
                 THEN extractRegions(Lookup(romEntries[1].attributes, <<"n","a","m","e">>, Undefined))
                 ELSE NoRegions
      regions == unique(fromName.list \o fromDescription.list \o fromRom.list)
  IN [name |-> name,
      description |-> description,
      category |-> category,
      roms |-> romEntries,
      regions |-> IF Len(regions) > 0 THEN regions ELSE <<>>,
      raw |-> rawGame]

normalizeGame(rawGame) ==
  LET nameAttr == Get(rawGame, <<"@","_","n","a","m","e">>)
      name == IF nameAttr.t = "string" THEN nameAttr.s
              ELSE coerceText(Get(rawGame, <<"n","a","m","e">>))
      description == coerceText(Get(rawGame, <<"d","e","s","c","r","i","p","t","i","o","n">>))
      category == coerceText(Get(rawGame, <<"c","a","t","e","g","o","r","y">>))
      rawRoms == toArray(Get(rawGame, <<"r","o","m">>))
      romEntries == [i \in 1..Len(rawRoms) |-> [attributes |-> mapRomAttributes(rawRoms[i])]]
      fromName == extractRegions(name)
      fromDescription == extractRegions(description)
      fromRom == IF Len(romEntries) > 0
                 THEN extractRegions(Lookup(romEntries[1].attributes, <<"n","a","m","e">>, Undefined))
                 ELSE NoRegions
      regions == IF fromName.found THEN fromName.list
                 ELSE IF fromDescription.found THEN fromDescription.list
                 ELSE IF fromRom.found THEN fromRom.list
                 ELSE <<>>
  IN [name |-> name,
      description |-> description,
      category |-> category,
      roms |-> romEntries,
      regions |-> IF Len(regions) > 0 THEN regions ELSE <<>>,
      raw |-> rawGame]

(***************************************************************************)
(* Descriptor                                                              *)
(***************************************************************************)

\* The number of consecutive characters of s from index i on that are in set.
RECURSIVE runLength(_, _, _)
runLength(s, i, set) ==
  IF i <= Len(s) /\ s[i] \in set THEN 1 + runLength(s, i + 1, set) ELSE 0

Whitespace == {" ", "\t"}
Digits == {"0", "1", "2", "3", "4", "5", "6", "7", "8", "9"}

\* The literal text occurs in s at index i.
literalAt(s, i, text) ==
  i >= 1 /\ i + Len(text) - 1 <= Len(s) /\ SubSeq(s, i, i + Len(text) - 1) = text

\* /text/i.test(s)
containsIgnoreCase(s, text) ==
  \E i \in 1..Len(s) : literalAt(toLowerCase(s), i, text)

\* description.match(^<system>\s*-\s*(.+?)\s*\(<count>\)): the first \s* takes
\* the whole blank run (a dash must follow), the second \s* is greedy and gives
\* blanks back (b, longest first) and the capture is lazy (c, shortest first).
tryExtractDescriptor(description, systemName, totalGames) ==
  IF Falsy(description) THEN Null
  ELSE LET count == <<"(">> \o String(totalGames) \o <<")">>
           dash == Len(systemName) + 1 + runLength(description, Len(systemName) + 1, Whitespace)
           blanks == runLength(description, dash + 1, Whitespace)
           matches(b, c) ==
             LET end == dash + 1 + b + c
             IN \E d \in 0..runLength(description, end, Whitespace) :
                  literalAt(description, end + d, count)
           found == {bc \in (0..blanks) \X (1..Len(description)) : matches(bc[1], bc[2])}
       IN IF /\ startsWith(description, systemName)
             /\ literalAt(description, dash, <<"-">>)
             /\ found # {}
          THEN LET bc == CHOOSE x \in found :
                           \A y \in found : x[1] > y[1] \/ (x[1] = y[1] /\ x[2] <= y[2])
                   start == dash + 1 + bc[1]
               IN trim(SubSeq(description, start, start + bc[2] - 1))
          ELSE Null

\* description.match(/-\s*([^-()]+)\s*\(\d+\)/): leftmost dash followed by a
\* non-empty run without dash or parenthesis that ends at "(<digits>)"; the
\* greedy capture is that run less the blanks \s* took, and it is trimmed.
extractGenericDescriptor(description) ==
  LET run(i) == runLength(description, i + 1, {description[k] : k \in 1..Len(description)} \ {"-", "(", ")"})
      number(i) == runLength(description, i + run(i) + 2, Digits)
      dashes == {i \in 1..Len(description) :
                   /\ description[i] = "-"
                   /\ run(i) >= 1
                   /\ literalAt(description, i + run(i) + 1, <<"(">>)
                   /\ number(i) >= 1
                   /\ literalAt(description, i + run(i) + 2 + number(i), <<")">>)}
  IN IF dashes # {}
     THEN LET i == CHOOSE i \in dashes : \A j \in dashes : i <= j
          IN trim(SubSeq(description, i + 1, i + run(i)))
     ELSE IF containsIgnoreCase(description, <<"d","a","t","f","i","l","e">>) THEN <<"D","a","t","f","i","l","e">>
     ELSE Null

normalizeDescriptorLabel(label) ==
  IF containsIgnoreCase(label, <<"d","a","t","f","i","l","e">>) THEN <<"D","a","t","f","i","l","e">>
  ELSE IF containsIgnoreCase(label, <<"d","i","s","c">>) THEN <<"D","a","t","f","i","l","e">>
  ELSE label

\* deriveDescriptors that tries the loose pattern before the anchored one
deriveDescriptorsLooseFirst(header, totalGames) ==
  LET description == Coalesce(header.description, <<>>)
      candidate == extractGenericDescriptor(description)
      generic == IF Nullish(candidate)
                 THEN tryExtractDescriptor(description, header.name, totalGames)
                 ELSE candidate
      normalized == normalizeDescriptorLabel(Coalesce(generic, <<"D","a","t","f","i","l","e">>))
  IN [originalDescriptor |-> Coalesce(generic, normalized),
      normalizedDescriptor |-> normalized]

deriveDescriptors(header, totalGames) ==
  LET description == Coalesce(header.description, <<>>)
      candidate == tryExtractDescriptor(description, header.name, totalGames)
      generic == IF Nullish(candidate) THEN extractGenericDescriptor(description) ELSE candidate
      normalized == normalizeDescriptorLabel(Coalesce(generic, <<"D","a","t","f","i","l","e">>))
  IN [originalDescriptor |-> Coalesce(generic, normalized),
      normalizedDescriptor |-> normalized]

(***************************************************************************)
(* parseDat                                                                *)
(***************************************************************************)

\* The collation weight of a character under localeCompare: blank first,
\* then the letters without regard to case.
CollationAlphabet == <<" ">> \o LowerCase

collationWeight(c) ==
  IF \E i \in DOMAIN CollationAlphabet : CollationAlphabet[i] = toLowerChar(c)
  THEN CHOOSE i \in DOMAIN CollationAlphabet : CollationAlphabet[i] = toLowerChar(c)
  ELSE 0

\* a.localeCompare(b) < 0: first difference of the weights, a prefix first,
\* and lower case before upper case between strings equal but for case.
localeBefore(a, b) ==
  LET common == IF Len(a) < Len(b) THEN Len(a) ELSE Len(b)
      differ == {i \in 1..common : collationWeight(a[i]) # collationWeight(b[i])}
      caseDiffer == {i \in 1..common : a[i] # b[i]}
  IN IF differ # {}
     THEN LET i == CHOOSE i \in differ : \A j \in differ : i <= j
          IN collationWeight(a[i]) < collationWeight(b[i])
     ELSE IF Len(a) # Len(b) THEN Len(a) < Len(b)
     ELSE IF caseDiffer # {}
     THEN LET i == CHOOSE i \in caseDiffer : \A j \in caseDiffer : i <= j
          IN toLowerChar(a[i]) = a[i]
     ELSE FALSE

\* Array.from(set).sort((a, b) => a.localeCompare(b))
RECURSIVE sortByLocale(_)
sortByLocale(set) ==
  IF set = {} THEN <<>>
  ELSE LET first == CHOOSE x \in set : \A y \in set \ {x} : localeBefore(x, y)
       IN <<first>> \o sortByLocale(set \ {first})

\* availableRegionSet that adds no Unknown for an entry without regions
availableRegionSetWithoutUnknown(games) ==
  UNION {{games[i].regions[j] : j \in 1..Len(games[i].regions)} : i \in 1..Len(games)}

\* The set that the loop over gamesArray fills.
availableRegionSet(games) ==
  UNION {IF Len(games[i].regions) = 0
         THEN {DEFAULT_REGION}
         ELSE {games[i].regions[j] : j \in 1..Len(games[i].regions)} : i \in 1..Len(games)}

\* The result of a call that throws.
Thrown(error) == [error |-> error]

\* parseDat applied to the tree xmlParser.parse returned.
parseDat(parsedXml) ==
  LET datafile == Get(parsedXml, <<"d","a","t","a","f","i","l","e">>)
      rawHeader == Get(datafile, <<"h","e","a","d","e","r">>)
      rawGame == Get(datafile, <<"g","a","m","e">>)
      rootExtras == SelectSeq(ObjectEntries(datafile),
                              LAMBDA e : e.k # <<"h","e","a","d","e","r">> /\ e.k # <<"g","a","m","e">>)
      normalized == normalizeHeader(rawHeader)
      header == normalized.header
      gamesArray == Map(toArray(rawGame), normalizeGame)
      descriptors == deriveDescriptors(header, Len(gamesArray))
  IN IF RawFalsy(datafile) THEN Thrown(InvalidFormat)
     ELSE IF normalized.error # "none" THEN Thrown(normalized.error)
     ELSE [error |-> "none",
           header |-> header,
           games |-> gamesArray,
           availableRegions |-> sortByLocale(availableRegionSet(gamesArray)),
           descriptor |-> descriptors.originalDescriptor,
           normalizedDescriptor |-> descriptors.normalizedDescriptor,
           versionLabel |-> Coalesce(header.version, header.date),
           rawRootExtras |-> rootExtras]

(***************************************************************************)
(* filterDatByRegions                                                      *)
(***************************************************************************)

XML_DECLARATION == <<"<","?","x","m","l"," ","v","e","r","s","i","o","n","=","\"","1",".","0","\"","?",">">>

DATAFILE_DOCTYPE ==
  <<"<","!","D","O","C","T","Y","P","E"," ","d","a","t","a","f","i","l","e"," ","P","U","B","L","I","C"," ","\"","-","/","/","L","o","g","i","q","x","/","/","D","T","D"," ","R","O","M"," ","M","a","n","a","g","e","m","e","n","t"," ","D","a","t","a","f","i","l","e","/","/","E","N","\""," ","\"","h","t","t","p",":","/","/","w","w","w",".","l","o","g","i","q","x",".","c","o","m","/","D","a","t","s","/","d","a","t","a","f","i","l","e",".","d","t","d","\"",">">>

\* createRegionLabel that sorts the labels before joining them
createRegionLabelSorted(selectedRegions) ==
  IF Len(selectedRegions) = 0 THEN <<>>
  ELSE join(sortByLocale({selectedRegions[i] : i \in 1..Len(selectedRegions)}), <<","," ">>)

createRegionLabel(selectedRegions) ==
  IF Len(selectedRegions) = 0 THEN <<>> ELSE join(selectedRegions, <<","," ">>)

\* buildFilteredHeader that takes the date field before the version label
buildFilteredHeaderDateFirst(header, filteredCount, selectedRegions, descriptorOriginal, versionLabel, today) ==
  LET regionLabel == createRegionLabel(selectedRegions)
      systemName == header.name
      version == Coalesce(header.date, Coalesce(versionLabel, Coalesce(header.version, today)))
      decoratedSystem == IF Falsy(regionLabel) THEN systemName
                         ELSE systemName \o <<" ","(">> \o regionLabel \o <<")">>
      description == decoratedSystem \o <<" ","-"," ">> \o descriptorOriginal
                       \o <<" ","(">> \o String(filteredCount) \o <<")"," ","(">> \o version \o <<")">>
  IN [header EXCEPT !.name = decoratedSystem,
                    !.description = description,
                    !.extra = [i \in 1..Len(header.extra) |-> header.extra[i]]]

\* buildFilteredHeader that also writes the version label into the version field
buildFilteredHeaderStampingVersion(header, filteredCount, selectedRegions, descriptorOriginal, versionLabel, today) ==
  LET regionLabel == createRegionLabel(selectedRegions)
      systemName == header.name
      version == Coalesce(versionLabel, Coalesce(header.version, Coalesce(header.date, today)))
      decoratedSystem == IF Falsy(regionLabel) THEN systemName
                         ELSE systemName \o <<" ","(">> \o regionLabel \o <<")">>
      description == decoratedSystem \o <<" ","-"," ">> \o descriptorOriginal
                       \o <<" ","(">> \o String(filteredCount) \o <<")"," ","(">> \o version \o <<")">>
  IN [header EXCEPT !.name = decoratedSystem,
                    !.description = description,
                    !.version = version,
                    !.extra = [i \in 1..Len(header.extra) |-> header.extra[i]]]

\* today is new Date().toISOString().split('T')[0]
buildFilteredHeader(header, filteredCount, selectedRegions, descriptorOriginal, versionLabel, today) ==
  LET regionLabel == createRegionLabel(selectedRegions)
      systemName == header.name
      version == Coalesce(versionLabel, Coalesce(header.version, Coalesce(header.date, today)))
      decoratedSystem == IF Falsy(regionLabel) THEN systemName
                         ELSE systemName \o <<" ","(">> \o regionLabel \o <<")">>
      description == decoratedSystem \o <<" ","-"," ">> \o descriptorOriginal
                       \o <<" ","(">> \o String(filteredCount) \o <<")"," ","(">> \o version \o <<")">>
  IN [header EXCEPT !.name = decoratedSystem,
                    !.description = description,
                    !.extra = [i \in 1..Len(header.extra) |-> header.extra[i]]]

\* { ...object, [key]: value }
RECURSIVE spread(_, _)
spread(entries, more) ==
  IF more = <<>> THEN entries
  ELSE LET e == Head(more)
           merged == IF HasKey(entries, e.k)
                     THEN [i \in 1..Len(entries) |->
                             IF entries[i].k = e.k THEN e ELSE entries[i]]
                     ELSE Append(entries, e)
       IN spread(merged, Tail(more))

\* The own properties of a DatHeader but extra, undefined where never set.
knownHeaderEntries(header) ==
  SelectSeq(<<Entry(<<"n","a","m","e">>, header.name),
              Entry(<<"d","e","s","c","r","i","p","t","i","o","n">>, header.description),
              Entry(<<"v","e","r","s","i","o","n">>, header.version),
              Entry(<<"d","a","t","e">>, header.date),
              Entry(<<"a","u","t","h","o","r">>, header.author),
              Entry(<<"h","o","m","e","p","a","g","e">>, header.homepage),
              Entry(<<"u","r","l">>, header.url)>>,
            LAMBDA e : e.v # Undefined)

headerToXmlNode(header) ==
  SelectSeq(spread(header.extra, knownHeaderEntries(header)),
            LAMBDA e : e.k # <<"e","x","t","r","a">> /\ ~Nullish(e.v))

\* structuredClone of a tree of the parser
RECURSIVE cloneDeep(_)
cloneDeep(value) ==
  CASE value.t = "array" -> RawArray([i \in 1..Len(value.a) |-> cloneDeep(value.a[i])])
    [] value.t = "object" ->
         RawObject([i \in 1..Len(value.o) |-> Entry(value.o[i].k, cloneDeep(value.o[i].v))])
    [] OTHER -> value

IllegalFilenameChars == {"<", ">", ":", "\"", "/", "\\", "|", "?", "*"}

sanitizeFilename(input) ==
  trim(collapseWhitespace([i \in 1..Len(input) |->
                             IF input[i] \in IllegalFilenameChars THEN " " ELSE input[i]]))

\* baseFilename.match(/(\.[^.]+)$/): the index of the last dot, 0 without a match
extensionStart(baseFilename) ==
  IF Nullish(baseFilename) THEN 0
  ELSE LET dots == {i \in 1..(Len(baseFilename) - 1) :
                      baseFilename[i] = "." /\ \A j \in (i + 1)..Len(baseFilename) : baseFilename[j] # "."}
       IN IF dots = {} THEN 0 ELSE CHOOSE i \in dots : TRUE

\* base.match(/^(.*?)\s*-\s*([^-()]+?)\s*\((\d+)\)(.*)$/): the lazy prefix stops
\* at the leftmost dash that is followed by a non-empty run without dash or
\* parenthesis ending at "(<digits>)"; the result is group 4, or Null.
filenameRest(base) ==
  LET run(i) == runLength(base, i + 1, {base[k] : k \in 1..Len(base)} \ {"-", "(", ")"})
      number(i) == runLength(base, i + run(i) + 2, Digits)
      dashes == {i \in 1..Len(base) :
                   /\ base[i] = "-"
                   /\ run(i) >= 1
                   /\ literalAt(base, i + run(i) + 1, <<"(">>)
                   /\ number(i) >= 1
                   /\ literalAt(base, i + run(i) + 2 + number(i), <<")">>)}
  IN IF dashes = {} THEN Null
     ELSE LET i == CHOOSE i \in dashes : \A j \in dashes : i <= j
          IN SubSeq(base, i + run(i) + 3 + number(i), Len(base))

\* deriveFilteredFilename that takes the header description before the original filename
deriveFilteredFilenameDescriptionFirst(baseFilename, headerDescription, decoratedSystem, descriptorNormalized, filteredCount, versionLabel) ==
  LET dot == extensionStart(baseFilename)
      extension == IF dot > 0 THEN SubSeq(baseFilename, dot, Len(baseFilename)) ELSE <<".","d","a","t">>
      baseWithoutExtension ==
        IF ~Falsy(baseFilename) /\ dot > 0 THEN SubSeq(baseFilename, 1, dot - 1)
        ELSE baseFilename
      rest == IF Falsy(baseWithoutExtension) THEN Null ELSE filenameRest(baseWithoutExtension)
      versionSegment == IF Falsy(versionLabel) THEN <<>> ELSE <<" ","(">> \o versionLabel \o <<")">>
      stem == decoratedSystem \o <<" ","-"," ">> \o descriptorNormalized
                \o <<" ","(">> \o String(filteredCount) \o <<")">>
  IN IF ~Falsy(headerDescription)
     THEN sanitizeFilename(headerDescription) \o extension
     ELSE IF rest # Null
     THEN LET restTrimmed == trim(rest)
              suffix == IF restTrimmed # <<>> THEN <<" ">> \o restTrimmed ELSE versionSegment
          IN sanitizeFilename(stem \o suffix) \o extension
     ELSE sanitizeFilename(stem \o versionSegment) \o extension

deriveFilteredFilename(baseFilename, headerDescription, decoratedSystem, descriptorNormalized, filteredCount, versionLabel) ==
  LET dot == extensionStart(baseFilename)
      extension == IF dot > 0 THEN SubSeq(baseFilename, dot, Len(baseFilename)) ELSE <<".","d","a","t">>
      baseWithoutExtension ==
        IF ~Falsy(baseFilename) /\ dot > 0 THEN SubSeq(baseFilename, 1, dot - 1)
        ELSE baseFilename
      rest == IF Falsy(baseWithoutExtension) THEN Null ELSE filenameRest(baseWithoutExtension)
      versionSegment == IF Falsy(versionLabel) THEN <<>> ELSE <<" ","(">> \o versionLabel \o <<")">>
      stem == decoratedSystem \o <<" ","-"," ">> \o descriptorNormalized
                \o <<" ","(">> \o String(filteredCount) \o <<")">>
  IN IF rest # Null
     THEN LET restTrimmed == trim(rest)
              suffix == IF restTrimmed # <<>> THEN <<" ">> \o restTrimmed ELSE versionSegment
          IN sanitizeFilename(stem \o suffix) \o extension
     ELSE IF ~Falsy(headerDescription)
     THEN sanitizeFilename(headerDescription) \o extension
     ELSE sanitizeFilename(stem \o versionSegment) \o extension

\* canonicalSelections without the Set round trip that removes repeats
canonicalSelectionsWithRepeats(selectedRegions) ==
  SelectSeq(Map(selectedRegions, LAMBDA value : Coalesce(normalizeRegionToken(value), value)),
            LAMBDA value : ~Falsy(value))

\* canonicalSelections without the filter that drops empty strings
canonicalSelectionsKeepingEmpty(selectedRegions) ==
  unique(Map(selectedRegions, LAMBDA value : Coalesce(normalizeRegionToken(value), value)))

\* The selection after normalization, truthiness filter and Set round trip.
canonicalSelections(selectedRegions) ==
  unique(SelectSeq(Map(selectedRegions, LAMBDA value : Coalesce(normalizeRegionToken(value), value)),
                   LAMBDA value : ~Falsy(value)))

\* gameMatches with an entry without regions counted under the label Unknown
gameMatchesUnknownAsRegion(game, selection) ==
  \/ \E i \in 1..Len(game.regions) : \E j \in 1..Len(selection) : game.regions[i] = selection[j]
  \/ Len(game.regions) = 0 /\ \E j \in 1..Len(selection) : selection[j] = DEFAULT_REGION

\* game.regions.some((region) => normalizedSelection.has(region))
gameMatches(game, selection) ==
  \E i \in 1..Len(game.regions) : \E j \in 1..Len(selection) : game.regions[i] = selection[j]

\* keptGames that keeps every entry when no entry matches
keptGamesOrAll(parsed, canonical) ==
  LET matching == SelectSeq(parsed.games, LAMBDA game : gameMatches(game, canonical))
  IN IF Len(canonical) > 0 /\ Len(matching) > 0 THEN matching ELSE parsed.games

\* parsed.games.filter(...) under an active selection, parsed.games.slice() otherwise
keptGames(parsed, canonical) ==
  IF Len(canonical) > 0
  THEN SelectSeq(parsed.games, LAMBDA game : gameMatches(game, canonical))
  ELSE parsed.games

\* serializedGames that rebuilds each entry from its normalized fields
serializedGamesRebuilt(games) ==
  RawArray([i \in 1..Len(games) |->
              RawObject(<<Entry(<<"d","e","s","c","r","i","p","t","i","o","n">>, RawString(games[i].description)),
                          Entry(<<"@","_","n","a","m","e">>, RawString(games[i].name))>>)])

\* games.map((game) => cloneDeep(game.raw))
serializedGames(games) == RawArray([i \in 1..Len(games) |-> cloneDeep(games[i].raw)])

\* filterSummary with the operands of the subtraction exchanged
filterSummaryRemovedNegated(parsed, games, canonical, descriptorOriginal, descriptorNormalized) ==
  [initialGames |-> Len(parsed.games),
   filteredGames |-> Len(games),
   removedGames |-> Len(games) - Len(parsed.games),
   selectedRegions |-> canonical,
   regionLabel |-> createRegionLabel(canonical),
   descriptor |-> descriptorOriginal,
   normalizedDescriptor |-> descriptorNormalized,
   versionLabel |-> parsed.versionLabel]

filterSummary(parsed, games, canonical, descriptorOriginal, descriptorNormalized) ==
  [initialGames |-> Len(parsed.games),
   filteredGames |-> Len(games),
   removedGames |-> Len(parsed.games) - Len(games),
   selectedRegions |-> canonical,
   regionLabel |-> createRegionLabel(canonical),
   descriptor |-> descriptorOriginal,
   normalizedDescriptor |-> descriptorNormalized,
   versionLabel |-> parsed.versionLabel]

\* The xml of the result is the prolog and the tree handed to xmlBuilder.build.
filterDatByRegions(parsed, selectedRegions, baseFilename, today) ==
  LET canonical == canonicalSelections(selectedRegions)
      games == keptGames(parsed, canonical)
      descriptorOriginal == IF Falsy(parsed.descriptor) THEN <<"D","a","t","f","i","l","e">> ELSE parsed.descriptor
      descriptorNormalized == IF Falsy(parsed.normalizedDescriptor)
                              THEN normalizeDescriptorLabel(descriptorOriginal)
                              ELSE parsed.normalizedDescriptor
      header == buildFilteredHeader(parsed.header, Len(games), canonical,
                                    descriptorOriginal, parsed.versionLabel, today)
      headerNode == headerToXmlNode(header)
      filteredDatafile ==
        spread(parsed.rawRootExtras,
               <<Entry(<<"h","e","a","d","e","r">>,
                       RawObject([i \in 1..Len(headerNode) |->
                                    Entry(headerNode[i].k, RawString(headerNode[i].v))])),
                 Entry(<<"g","a","m","e">>, serializedGames(games))>>)
  IN IF Len(games) = 0 THEN Thrown(NoMatches)
     ELSE [error |-> "none",
           xml |-> [prolog |-> <<XML_DECLARATION, DATAFILE_DOCTYPE>>,
                    datafile |-> RawObject(filteredDatafile)],
           filename |-> deriveFilteredFilename(baseFilename, header.description, header.name,
                                               descriptorNormalized, Len(games),
                                               parsed.versionLabel),
           header |-> header,
           games |-> games,
           summary |-> filterSummary(parsed, games, canonical, descriptorOriginal,
                                     descriptorNormalized)]

(***************************************************************************)
(* Inputs                                                                  *)
(***************************************************************************)

\* The longest list of entries of a document and the longest selection.
MaxGames == 2
MaxSelected == 2

\* All sequences over set of length at most n.
RECURSIVE SeqsUpTo(_, _)
SeqsUpTo(set, n) ==
  IF n = 0 THEN {<<>>}
  ELSE LET shorter == SeqsUpTo(set, n - 1)
       IN shorter \cup {Append(s, x) : s \in shorter, x \in set}

\* <game name="A (USA)"><description>A (USA)</description><rom name="A.iso" size="1"/></game>
GameUSA ==
  RawObject(<<Entry(<<"d","e","s","c","r","i","p","t","i","o","n">>, RawString(<<"A"," ","(","U","S","A",")">>)),
              Entry(<<"r","o","m">>, RawObject(<<Entry(<<"@","_","n","a","m","e">>, RawString(<<"A",".","i","s","o">>)),
                                        Entry(<<"@","_","s","i","z","e">>, RawString(<<"1">>))>>)),
              Entry(<<"@","_","n","a","m","e">>, RawString(<<"A"," ","(","U","S","A",")">>))>>)

\* <game name="B (Europe, USA) (En)"><category>Games</category></game>
GameEuropeUSA ==
  RawObject(<<Entry(<<"c","a","t","e","g","o","r","y">>, RawString(<<"G","a","m","e","s">>)),
              Entry(<<"@","_","n","a","m","e">>, RawString(<<"B"," ","(","E","u","r","o","p","e",","," ","U","S","A",")"," ","(","E","n",")">>))>>)

\* <game><name>C (Unknown Country)</name><release/></game>: no region detected
GameNoRegion ==
  RawObject(<<Entry(<<"n","a","m","e">>, RawString(<<"C"," ","(","U","n","k","n","o","w","n"," ","C","o","u","n","t","r","y",")">>)),
              Entry(<<"r","e","l","e","a","s","e">>, RawString(<<>>))>>)

\* <game name="D (Unknown)"/>
GameUnknownTag == RawObject(<<Entry(<<"@","_","n","a","m","e">>, RawString(<<"D"," ","(","U","n","k","n","o","w","n",")">>))>>)

\* <game name="F"><rom name="F (jpn).bin"/><rom name="F.cue"/></game>
GameRomRegion ==
  RawObject(<<Entry(<<"r","o","m">>, RawArray(<<RawObject(<<Entry(<<"@","_","n","a","m","e">>, RawString(<<"F"," ","(","j","p","n",")",".","b","i","n">>))>>),
                                       RawObject(<<Entry(<<"@","_","n","a","m","e">>, RawString(<<"F",".","c","u","e">>))>>)>>)),
              Entry(<<"@","_","n","a","m","e">>, RawString(<<"F">>))>>)

GamePool == {GameUSA, GameEuropeUSA, GameNoRegion, GameUnknownTag, GameRomRegion}

\* header with every recognized field
HeaderFull ==
  RawObject(<<Entry(<<"n","a","m","e">>, RawString(<<"X">>)),
              Entry(<<"d","e","s","c","r","i","p","t","i","o","n">>, RawString(<<"X"," ","-"," ","D","a","t","f","i","l","e"," ","(","2",")"," ","(","v","1",")">>)),
              Entry(<<"v","e","r","s","i","o","n">>, RawString(<<"v","1">>)),
              Entry(<<"d","a","t","e">>, RawString(<<"d","1">>)),
              Entry(<<"a","u","t","h","o","r">>, RawString(<<"a","u">>)),
              Entry(<<"h","o","m","e","p","a","g","e">>, RawString(<<"h","p">>)),
              Entry(<<"u","r","l">>, RawString(<<"u">>))>>)

\* header with a name and unrecognized fields only, one of them <extra>
HeaderExtras ==
  RawObject(<<Entry(<<"n","a","m","e">>, RawString(<<"X">>)),
              Entry(<<"c","o","m","m","e","n","t">>, RawString(<<"c">>)),
              Entry(<<"e","x","t","r","a">>, RawString(<<"e">>))>>)

\* header with a repeated name element, a date and an attribute
HeaderDated ==
  RawObject(<<Entry(<<"n","a","m","e">>, RawArray(<<RawString(<<"Y">>), RawString(<<"Z">>)>>)),
              Entry(<<"d","e","s","c","r","i","p","t","i","o","n">>, RawString(<<"Y"," ","-"," ","D","i","s","c","s"," ","(","1",")">>)),
              Entry(<<"d","a","t","e">>, RawString(<<"d","1">>)),
              Entry(<<"@","_","l","a","n","g">>, RawString(<<"e","n">>))>>)

\* <header><name></name><version>v1</version></header>
HeaderEmptyName ==
  RawObject(<<Entry(<<"n","a","m","e">>, RawString(<<>>)), Entry(<<"v","e","r","s","i","o","n">>, RawString(<<"v","1">>))>>)

\* <header><description>X</description></header>
HeaderNoName == RawObject(<<Entry(<<"d","e","s","c","r","i","p","t","i","o","n">>, RawString(<<"X">>))>>)

HeaderPool ==
  {HeaderFull, HeaderExtras, HeaderDated, HeaderEmptyName, HeaderNoName, RawUndefined}

\* xmlParser.parse of a document with a datafile root
Document(header, games) ==
  LET headerEntry == IF header = RawUndefined THEN <<>> ELSE <<Entry(<<"h","e","a","d","e","r">>, header)>>
      \* the parser gives a single child as the child itself, several as an array
      gameEntry == IF Len(games) = 0 THEN <<>>
                   ELSE IF Len(games) = 1 THEN <<Entry(<<"g","a","m","e">>, games[1])>>
                   ELSE <<Entry(<<"g","a","m","e">>, RawArray(games))>>
  IN RawObject(<<Entry(<<"d","a","t","a","f","i","l","e">>,
                       RawObject(headerEntry \o gameEntry \o <<Entry(<<"@","_","b","u","i","l","d">>, RawString(<<"1">>))>>))>>)

\* documents without a datafile root: another root, and <datafile/>
RootlessDocuments ==
  {RawObject(<<Entry(<<"h","t","m","l">>, RawString(<<"x">>))>>),
   RawObject(<<Entry(<<"d","a","t","a","f","i","l","e">>, RawString(<<>>))>>)}

Documents ==
  {Document(h, g) : h \in HeaderPool, g \in SeqsUpTo(GamePool, MaxGames)} \cup RootlessDocuments

SelectionPool == {<<"U","S","A">>, <<"U","n","k","n","o","w","n">>, <<"p","a","l">>, <<"F","o","o">>, <<>>}

BaseFilenames == {Undefined, <<"X"," ","-"," ","D","a","t","f","i","l","e"," ","(","2",")"," ","(","v","1",")",".","d","a","t">>}

Today == <<"2","0","2","6","-","1","1","-","0","2">>
Tomorrow == <<"2","0","2","6","-","1","1","-","0","3">>

\* new Date() is read at every call: the calls of one run may fall on either side of midnight.
Dates == {Today, Tomorrow}

(***************************************************************************)
(* State machine: a document is parsed once, then filtered any number of   *)
(* times, each call returning before the next.                              *)
(***************************************************************************)

VARIABLES xmlTree, parsed, request, result

\* the main process: the current-document slot, the handler calls in progress
\* or not yet answered, and the last file the process wrote
VARIABLES loadedDat, calls, written

\* a pure function under check: its argument and its value
VARIABLES input, output

\* the renderer: the document it shows, the selected regions, whether the
\* preview effect is due, the request counter, the preview requests awaiting
\* their response, the displayed preview and the loading flag
VARIABLES hydrated, selection, effectDue, previewRequestId, pending, preview, previewLoading

libraryVars == <<xmlTree, parsed, request, result>>
mainVars == <<loadedDat, calls, written>>
functionVars == <<input, output>>
rendererVars == <<hydrated, selection, effectDue, previewRequestId, pending, preview, previewLoading>>

vars == <<libraryVars, mainVars, functionVars, rendererVars>>

\* the slot before any load, and the values of the variables a specification leaves alone
NoDocument == [loaded |-> FALSE]
NothingWritten == [path |-> Undefined]
NoInput == [of |-> "none"]
NoOutput == [of |-> "none"]
NoPayload == [loaded |-> FALSE, regions |-> <<>>]
NoPreview == [header |-> Null, summary |-> Null, filename |-> Null, error |-> Null]

MainIdle == loadedDat = NoDocument /\ calls = <<>> /\ written = NothingWritten
FunctionIdle == input = NoInput /\ output = NoOutput
RendererIdle ==
  /\ hydrated = NoPayload /\ selection = <<>> /\ effectDue = FALSE /\ previewRequestId = 0
  /\ pending = {} /\ preview = NoPreview /\ previewLoading = FALSE
LibraryIdle == xmlTree = RawUndefined /\ parsed = [error |-> "unparsed"] /\ request = [made |-> FALSE] /\ result = [error |-> "pending"]

\* nothing parsed, no call made
Unparsed == [error |-> "unparsed"]
NoRequest == [made |-> FALSE]
NoResult == [error |-> "pending"]

Init ==
  /\ xmlTree \in Documents
  /\ parsed = Unparsed
  /\ request = NoRequest
  /\ result = NoResult
  /\ MainIdle /\ FunctionIdle /\ RendererIdle

ParseDat ==
  /\ parsed = Unparsed
  /\ parsed' = parseDat(xmlTree)
  /\ UNCHANGED <<xmlTree, request, result, mainVars, functionVars, rendererVars>>

\* The selections a caller passes: any short list, or every available region.
Selections ==
  IF parsed.error = "none"
  THEN SeqsUpTo(SelectionPool, MaxSelected) \cup {parsed.availableRegions}
  ELSE {}

FilterDat(selectedRegions, baseFilename) ==
  /\ parsed.error = "none"
  /\ result = NoResult
  /\ request' = [made |-> TRUE, selectedRegions |-> selectedRegions, baseFilename |-> baseFilename]
  /\ \E today \in Dates : result' = filterDatByRegions(parsed, selectedRegions, baseFilename, today)
  /\ UNCHANGED <<xmlTree, parsed, mainVars, functionVars, rendererVars>>

\* The caller is done with the result (or the error); parsed stays loaded.
Return ==
  /\ result # NoResult
  /\ request' = NoRequest
  /\ result' = NoResult
  /\ UNCHANGED <<xmlTree, parsed, mainVars, functionVars, rendererVars>>

Next ==
  \/ ParseDat
  \/ \E selectedRegions \in Selections, baseFilename \in BaseFilenames :
       FilterDat(selectedRegions, baseFilename)
  \/ Return

Spec == Init /\ [][Next]_vars

(***************************************************************************)
(* Properties                                                              *)
(***************************************************************************)

\* The labels of a list, as a set.
LabelSet(list) == {list[i] : i \in 1..Len(list)}

\* The elements of seq at the indexes in set, in increasing order of index.
RECURSIVE SubsequenceAt(_, _)
SubsequenceAt(seq, indexes) ==
  IF indexes = {} THEN <<>>
  ELSE LET last == CHOOSE i \in indexes : \A j \in indexes : j <= i
       IN Append(SubsequenceAt(seq, indexes \ {last}), seq[last])

\* The canonicalized selection of the call in progress.
RequestedLabels == canonicalSelections(request.selectedRegions)

\* The entries a finished call kept: none when it failed.
KeptEntries == IF result.error = "none" THEN result.games ELSE <<>>

\* The indexes of the entries that share a label with the canonicalized selection.
MatchingIndexes ==
  {i \in 1..Len(parsed.games) :
     LabelSet(parsed.games[i].regions) \cap LabelSet(RequestedLabels) # {}}

\* C1: under a non-empty canonicalized selection the kept entries are exactly
\* the entries sharing a label with it, in source order, and an entry without
\* regions is never among them.
C1_KeepsMatchingEntries ==
  (request.made /\ RequestedLabels # <<>>) =>
    /\ KeptEntries = SubsequenceAt(parsed.games, MatchingIndexes)
    /\ \A i \in 1..Len(KeptEntries) : KeptEntries[i].regions # <<>>

\* C1 witness: Unknown is selected, the document has an entry without
\* regions, and the call kept some entries and dropped others.
C1_Witness ==
  /\ request.made /\ result.error = "none"
  /\ DEFAULT_REGION \in LabelSet(RequestedLabels)
  /\ \E i \in 1..Len(parsed.games) : parsed.games[i].regions = <<>>
  /\ Len(result.games) < Len(parsed.games)

\* C2: a selection of no strings or of empty strings only filters nothing:
\* every entry is kept in source order and the header name is unchanged; the
\* call fails only on a document without entries.
C2_EmptySelectionKeepsAll ==
  (request.made /\ \A i \in 1..Len(request.selectedRegions) : request.selectedRegions[i] = <<>>) =>
    /\ RequestedLabels = <<>>
    /\ Len(parsed.games) > 0 =>
         /\ result.error = "none"
         /\ result.games = parsed.games
         /\ result.header.name = parsed.header.name
    /\ result.error # "none" => Len(parsed.games) = 0

\* C2 witness: the selection is one empty string and two entries are kept.
C2_Witness ==
  /\ request.made /\ result.error = "none"
  /\ request.selectedRegions = <<<<>>>>
  /\ Len(result.games) = 2

\* The filtered entry count of a call: 0 when it failed.
FilteredCount(outcome) == IF outcome.error = "none" THEN outcome.summary.filteredGames ELSE 0

\* The filtered entry count of the same call with an empty selection.
UnrestrictedCount == FilteredCount(filterDatByRegions(parsed, <<>>, request.baseFilename, Today))

\* The call in progress selects the whole availableRegions list.
FullSelection == request.made /\ request.selectedRegions = parsed.availableRegions

\* The indexes of the entries with at least one detected region.
TaggedIndexes == {i \in 1..Len(parsed.games) : parsed.games[i].regions # <<>>}

\* C3 as claimed: selecting the whole availableRegions list yields the
\* filtered entry count of an empty selection.
C3_Original == FullSelection => FilteredCount(result) = UnrestrictedCount

\* C3 as amended: selecting the whole availableRegions list keeps exactly the
\* entries with a detected region, so its count is that of an empty selection
\* if and only if no entry is without regions.
C3_FullSelectionKeepsTagged ==
  FullSelection =>
    /\ KeptEntries = SubsequenceAt(parsed.games, TaggedIndexes)
    /\ (FilteredCount(result) = UnrestrictedCount) <=> (TaggedIndexes = 1..Len(parsed.games))

\* C3 witness: the whole list is selected on a document of two entries, one
\* of them without regions, and that one is dropped.
C3_Witness ==
  /\ FullSelection /\ result.error = "none"
  /\ Len(parsed.games) = 2 /\ Cardinality(TaggedIndexes) = 1
  /\ Len(result.games) = 1

\* The entries the selection of the call should keep.
ExpectedKept ==
  IF RequestedLabels = <<>> THEN parsed.games ELSE SubsequenceAt(parsed.games, MatchingIndexes)

\* The canonicalized selection shares no label with any entry.
SelectionDisjoint == MatchingIndexes = {}

\* C4 as claimed: the call fails with NoMatches exactly when nothing is kept,
\* every selection disjoint from all the region lists fails, and a result has
\* an entry.
C4_Original ==
  request.made =>
    /\ result.error = NoMatches <=> ExpectedKept = <<>>
    /\ SelectionDisjoint => result.error = NoMatches
    /\ result.error = "none" => Len(result.games) >= 1

\* C4 as amended: the call fails, and with NoMatches, exactly when nothing is
\* kept; a non-empty canonicalized selection disjoint from all the region
\* lists fails; a result has an entry.
C4_NoMatchesIffNothingKept ==
  request.made =>
    /\ result.error \in {"none", NoMatches}
    /\ result.error = NoMatches <=> ExpectedKept = <<>>
    /\ (RequestedLabels # <<>> /\ SelectionDisjoint) => result.error = NoMatches
    /\ result.error = "none" => Len(result.games) >= 1

\* C4 witness: a non-empty selection shares no label with the two entries of
\* the document and the call failed with NoMatches.
C4_Witness ==
  /\ request.made /\ result.error = NoMatches
  /\ RequestedLabels # <<>> /\ SelectionDisjoint
  /\ Len(parsed.games) = 2

\* C5: the summary counts the entries of the document and the kept entries,
\* and the removed and the kept add up to the initial count.
C5_SummaryCounts ==
  (request.made /\ result.error = "none") =>
    /\ result.summary.initialGames = Len(parsed.games)
    /\ result.summary.filteredGames = Len(result.games)
    /\ result.summary.removedGames + result.summary.filteredGames = result.summary.initialGames

\* C5 witness: a result that kept one entry and removed one.
C5_Witness ==
  /\ request.made /\ result.error = "none"
  /\ result.summary.filteredGames = 1 /\ result.summary.removedGames = 1

\* C6: under an active selection the rebuilt name is the parsed name followed
\* by the selected labels in selection order, joined by ", ", in parentheses,
\* and the rebuilt description is that name, the original descriptor, the
\* filtered count and the version label; the name starts from the name of the
\* parsed document in every call.
C6_RebuiltNameAndDescription ==
  (request.made /\ result.error = "none" /\ RequestedLabels # <<>>) =>
    LET decorated == parsed.header.name \o <<" ","(">> \o join(RequestedLabels, <<","," ">>) \o <<")">>
        labels == IF parsed.versionLabel = Undefined THEN Dates ELSE {parsed.versionLabel}
    IN /\ result.header.name = decorated
       /\ \E label \in labels :
            result.header.description =
              decorated \o <<" ","-"," ">> \o result.summary.descriptor
                \o <<" ","(">> \o String(Len(result.games)) \o <<")"," ","(">> \o label \o <<")">>

\* C6 witness: USA and pal are selected in that order and the name becomes
\* "X (USA, Europe)".
C6_Witness ==
  /\ request.made /\ result.error = "none"
  /\ request.selectedRegions = <<<<"U","S","A">>, <<"p","a","l">>>>
  /\ result.header.name = <<"X"," ","(","U","S","A",","," ","E","u","r","o","p","e",")">>

\* The entries of the source document and of the tree handed to the serializer.
SourceDatafile == Get(xmlTree, <<"d","a","t","a","f","i","l","e">>)
SourceEntries == toArray(Get(SourceDatafile, <<"g","a","m","e">>))
EmittedDatafile == result.xml.datafile
EmittedEntries == toArray(Get(EmittedDatafile, <<"g","a","m","e">>))

\* What a tree holds beside its header and its entries.
BesideHeaderAndEntries(node) ==
  SelectSeq(node.o, LAMBDA e : e.k # <<"h","e","a","d","e","r">> /\ e.k # <<"g","a","m","e">>)

\* C7: the serialized entries are the raw sub-trees of the kept entries as
\* they stand in the source document, in source order; without a restriction
\* they are all the entries, and nothing beside the header differs.
C7_EmitsOriginalSubtrees ==
  (request.made /\ result.error = "none") =>
    /\ EmittedEntries =
         SubsequenceAt(SourceEntries,
                       IF RequestedLabels = <<>> THEN 1..Len(SourceEntries) ELSE MatchingIndexes)
    /\ RequestedLabels = <<>> =>
         /\ EmittedEntries = SourceEntries
         /\ BesideHeaderAndEntries(EmittedDatafile) = BesideHeaderAndEntries(SourceDatafile)

\* C7 witness: one of two entries is kept and it is serialized with the rom
\* element of the source.
C7_Witness ==
  /\ request.made /\ result.error = "none"
  /\ Len(SourceEntries) = 2 /\ Len(EmittedEntries) = 1
  /\ HasKey(EmittedEntries[1].o, <<"r","o","m">>)

\* The header node of the tree handed to the serializer.
EmittedHeader == Get(EmittedDatafile, <<"h","e","a","d","e","r">>).o

\* C8 as claimed: every field of the extra mapping of the parsed header is in
\* the serialized header node under its key and with its value.
C8_ExtrasSerialized ==
  (request.made /\ result.error = "none") =>
    \A i \in 1..Len(parsed.header.extra) :
      \E j \in 1..Len(EmittedHeader) :
        /\ EmittedHeader[j].k = parsed.header.extra[i].k
        /\ EmittedHeader[j].v = RawString(parsed.header.extra[i].v)

\* C9: the rebuilt header has the version, date, author, homepage, url and
\* extra mapping of the parsed header.
C9_OnlyNameAndDescriptionChange ==
  (request.made /\ result.error = "none") =>
    /\ result.header.version = parsed.header.version
    /\ result.header.date = parsed.header.date
    /\ result.header.author = parsed.header.author
    /\ result.header.homepage = parsed.header.homepage
    /\ result.header.url = parsed.header.url
    /\ result.header.extra = parsed.header.extra

\* C9 witness: a header with a date, no version and an extra field is rebuilt
\* with another name.
C9_Witness ==
  /\ request.made /\ result.error = "none"
  /\ parsed.header.version = Undefined /\ parsed.header.date # Undefined
  /\ parsed.header.extra # <<>>
  /\ result.header.name # parsed.header.name

\* The name element of the header of the source document.
SourceName == Get(Get(SourceDatafile, <<"h","e","a","d","e","r">>), <<"n","a","m","e">>)

\* C10: without a datafile root, or without a name or with an empty name in
\* the header, parseDat fails with InvalidFormat and returns nothing else; a
\* parsed document has a non-empty name.
C10_InvalidFormat ==
  (parsed # Unparsed) =>
    /\ (\/ ~HasKey(xmlTree.o, <<"d","a","t","a","f","i","l","e">>)
        \/ SourceName = RawUndefined
        \/ SourceName = RawString(<<>>)) =>
         (parsed.error = InvalidFormat /\ DOMAIN parsed = {"error"})
    /\ parsed.error = "none" => Len(parsed.header.name) > 0

\* C10 witness: the document has a root and a header whose name element is
\* empty, and parseDat failed.
C10_Witness ==
  /\ parsed # Unparsed /\ parsed.error = InvalidFormat
  /\ HasKey(xmlTree.o, <<"d","a","t","a","f","i","l","e">>)
  /\ SourceName = RawString(<<>>)


\* The labels found in the region list of some entry of the parsed document.
EntryLabels == UNION {LabelSet(parsed.games[i].regions) : i \in 1..Len(parsed.games)}

\* Some entry of the parsed document has no detected region.
HasUntaggedEntry == \E i \in 1..Len(parsed.games) : parsed.games[i].regions = <<>>

\* C11 as claimed: availableRegions is in ascending collation order without
\* duplicates, its labels are the canonical labels found in some entry's
\* region list together with Unknown, and Unknown is among them when and only
\* when some entry has no detected region.  The list is looked at when
\* parseDat has returned and between the filter calls, which leave the parsed
\* document as it is.
C11_AvailableRegions ==
  (parsed.error = "none" /\ ~request.made) =>
    /\ \A i, j \in 1..Len(parsed.availableRegions) :
         i < j => /\ parsed.availableRegions[i] # parsed.availableRegions[j]
                  /\ localeBefore(parsed.availableRegions[i], parsed.availableRegions[j])
    /\ LabelSet(parsed.availableRegions) =
         EntryLabels \cup (IF HasUntaggedEntry THEN {DEFAULT_REGION} ELSE {})
    /\ DEFAULT_REGION \in LabelSet(parsed.availableRegions) <=> HasUntaggedEntry


(***************************************************************************)
(* Main process: the IPC handlers share one current-document slot.  A      *)
(* handler runs until its next await; the awaited dialog or file operation *)
(* settles in a later step, and other handlers run in between.             *)
(***************************************************************************)

\* The most handler calls in progress or not yet answered at one time.
MaxCalls == 2

\* The position of the last "/" of a path, 0 without one.
lastSlash(p) ==
  IF \E i \in 1..Len(p) : p[i] = "/"
  THEN CHOOSE i \in 1..Len(p) : p[i] = "/" /\ \A j \in (i + 1)..Len(p) : p[j] # "/"
  ELSE 0

\* path.basename, path.dirname and path.join of POSIX paths without a trailing "/"
basename(p) == SubSeq(p, lastSlash(p) + 1, Len(p))

dirname(p) ==
  IF lastSlash(p) = 0 THEN <<".">>
  ELSE IF lastSlash(p) = 1 THEN <<"/">>
  ELSE SubSeq(p, 1, lastSlash(p) - 1)

pathJoin(dir, name) ==
  IF dir[Len(dir)] = "/" THEN dir \o name ELSE dir \o <<"/">> \o name

\* The files of the disk: two documents, a file that is no datafile, and a
\* path without a file.
PathA == <<"/","a",".","d","a","t">>
PathB == <<"/","b",".","d","a","t">>
PathInvalid == <<"/","b","a","d",".","d","a","t">>
PathMissing == <<"/","g","o","n","e",".","d","a","t">>
SourcePaths == {PathA, PathB, PathInvalid, PathMissing}

\* the target path of a save request that names one
OutputPath == <<"/","o",".","d","a","t">>

\* fs.access(filePath) resolves
fileExists(filePath) == filePath \in {PathA, PathB, PathInvalid}

\* fs.readFile(filePath, 'utf-8') as the XML parser reads it
fileContent(filePath) ==
  IF filePath = PathA THEN Document(HeaderExtras, <<GameUSA, GameNoRegion>>)
  ELSE IF filePath = PathB THEN Document(HeaderFull, <<GameEuropeUSA>>)
  ELSE Document(HeaderNoName, <<GameUSA>>)

\* the messages of the errors raised outside the library
NoFilePath == "No file path provided."
NoDatLoaded == "No DAT file loaded."
ENOENT == "ENOENT"
EACCES == "EACCES"

\* a call that has not returned yet
NoResponse == [pending |-> TRUE]

\* A handler call: its kind, the await it is at ("done" once it returned),
\* its locals and its response.
Call(kind, pc) ==
  [kind |-> kind, pc |-> pc, filePath |-> Undefined, regions |-> <<>>,
   sourcePath |-> Undefined, result |-> NoResult, finalPath |-> Undefined,
   response |-> NoResponse]

Returned(call, response) == [call EXCEPT !.pc = "done", !.response = response]

\* A load answers with a status flag (load from path) or a cancel flag (open).
LoadFailure(call, message) ==
  Returned(call, IF call.kind = "loadFromPath"
                 THEN [success |-> FALSE, error |-> message]
                 ELSE [canceled |-> FALSE, error |-> message])

buildLoadedPayload(state) ==
  [filePath |-> state.sourcePath,
   originalFilename |-> state.originalFilename,
   header |-> state.parsed.header,
   regions |-> state.parsed.availableRegions,
   totalGames |-> Len(state.parsed.games),
   descriptor |-> state.parsed.descriptor,
   normalizedDescriptor |-> state.parsed.normalizedDescriptor,
   versionLabel |-> state.parsed.versionLabel]

LoadSuccess(call, state) ==
  Returned(call, IF call.kind = "loadFromPath"
                 THEN [success |-> TRUE, data |-> buildLoadedPayload(state)]
                 ELSE [canceled |-> FALSE, data |-> buildLoadedPayload(state)])

\* loadDatFromPath up to its await: an empty path is refused at once.
loadDatFromPath(call, filePath) ==
  IF Falsy(filePath) THEN LoadFailure(call, NoFilePath)
  ELSE [call EXCEPT !.pc = "access", !.filePath = filePath]

\* loadStateFromFile once the file is read and parsed: the record of the
\* load, or the parse error.
loadStateFromFile(filePath, document) ==
  IF document.error # "none" THEN Thrown(document.error)
  ELSE [error |-> "none", loaded |-> TRUE, sourcePath |-> filePath,
        originalFilename |-> basename(filePath), parsed |-> document]

runFilter(state, regions, today) ==
  filterDatByRegions(state.parsed, Coalesce(regions, <<>>), state.originalFilename, today)

\* slotAfterFilter of a filter that decorates the header of its argument in place
slotAfterFilterDecorating(state, filtered) ==
  IF filtered.error = "none"
  THEN [state EXCEPT !.parsed = [state.parsed EXCEPT !.header = filtered.header]]
  ELSE state

\* The slot after a handler ran the filter on it: the filter writes to no
\* object reachable from its argument.
slotAfterFilter(state, filtered) == state

\* slotAfterLoad that keeps the whole path as the original filename
slotAfterLoadFullPath(state) ==
  [loaded |-> TRUE, sourcePath |-> state.sourcePath,
   originalFilename |-> state.sourcePath, parsed |-> state.parsed]

\* The slot after a load assigned it (loadedDat = state).
slotAfterLoad(state) ==
  [loaded |-> TRUE, sourcePath |-> state.sourcePath,
   originalFilename |-> state.originalFilename, parsed |-> state.parsed]


\* The selections the renderer sends with a preview or save request.
MainSelections == {<<<<"U","S","A">>>>, <<<<"F","o","o">>>>}

\* The outcomes of the open dialog: canceled, closed without a file, or a
\* file of the disk.
OpenDialogResults ==
  {[canceled |-> TRUE, filePaths |-> <<>>], [canceled |-> FALSE, filePaths |-> <<>>]}
    \cup {[canceled |-> FALSE, filePaths |-> <<p>>] : p \in {q \in SourcePaths : fileExists(q)}}

\* The outcomes of the save dialog: canceled, closed without a path, or the
\* proposed path accepted.
SaveDialogResults(defaultPath) ==
  {[canceled |-> TRUE, filePath |-> <<>>], [canceled |-> FALSE, filePath |-> <<>>],
   [canceled |-> FALSE, filePath |-> defaultPath]}

Replace(i, call) == [calls EXCEPT ![i] = call]

\* The reply of a call that returned is sent before the process handles its
\* next event: no handler step runs while a reply is to be sent.
AllReplied == \A i \in 1..Len(calls) : calls[i].pc # "done"

\* A new handler call can start.
CanStart == AllReplied /\ Len(calls) < MaxCalls

\* The runs explored hold one open request at most: the renderer disables its
\* open button while an open request is unanswered.  A dropped file is loaded
\* from its path whatever else is in progress.
NoOpenInProgress == \A i \in 1..Len(calls) : calls[i].kind # "openDat"

\* handleOpenDat: shows the open dialog and awaits it.
handleOpenDat ==
  /\ CanStart /\ NoOpenInProgress
  /\ calls' = Append(calls, Call("openDat", "showOpenDialog"))
  /\ UNCHANGED <<loadedDat, written, libraryVars, functionVars, rendererVars>>

\* The open dialog closes: a cancel is answered at once, a file is loaded.
OpenDialogCloses(i, dialogResult) ==
  /\ AllReplied /\ calls[i].pc = "showOpenDialog"
  /\ calls' = Replace(i, IF dialogResult.canceled \/ Len(dialogResult.filePaths) = 0
                         THEN Returned(calls[i], [canceled |-> TRUE])
                         ELSE loadDatFromPath(calls[i], dialogResult.filePaths[1]))
  /\ UNCHANGED <<loadedDat, written, libraryVars, functionVars, rendererVars>>

\* handleLoadFromPath
handleLoadFromPath(filePath) ==
  /\ CanStart
  /\ calls' = Append(calls, loadDatFromPath(Call("loadFromPath", "start"), filePath))
  /\ UNCHANGED <<loadedDat, written, libraryVars, functionVars, rendererVars>>

\* fs.access settles: a missing file is caught and answered as an error.
AccessSettles(i) ==
  /\ AllReplied /\ calls[i].pc = "access"
  /\ calls' = Replace(i, IF fileExists(calls[i].filePath)
                         THEN [calls[i] EXCEPT !.pc = "readFile"]
                         ELSE LoadFailure(calls[i], ENOENT))
  /\ UNCHANGED <<loadedDat, written, libraryVars, functionVars, rendererVars>>

\* ReadFileSettles that assigns the slot only while it is empty
ReadFileSettlesKeepingFirst(i) ==
  /\ AllReplied /\ calls[i].pc = "readFile"
  /\ \E content \in {fileContent(calls[i].filePath)} :
     \E document \in {parseDat(content)} :
     \E state \in {loadStateFromFile(calls[i].filePath, document)} :
       IF state.error # "none"
       THEN /\ calls' = Replace(i, LoadFailure(calls[i], state.error))
            /\ UNCHANGED loadedDat
       ELSE /\ loadedDat' = (IF loadedDat.loaded THEN loadedDat ELSE slotAfterLoad(state))
            /\ calls' = Replace(i, LoadSuccess(calls[i], state))
  /\ UNCHANGED <<written, libraryVars, functionVars, rendererVars>>

\* fs.readFile settles: the content is parsed, the slot is assigned the new
\* record and the payload is answered; a parse error is caught and answered.
ReadFileSettles(i) ==
  /\ AllReplied /\ calls[i].pc = "readFile"
  /\ \E content \in {fileContent(calls[i].filePath)} :
     \E document \in {parseDat(content)} :
     \E state \in {loadStateFromFile(calls[i].filePath, document)} :
       IF state.error # "none"
       THEN /\ calls' = Replace(i, LoadFailure(calls[i], state.error))
            /\ UNCHANGED loadedDat
       ELSE /\ loadedDat' = slotAfterLoad(state)
            /\ calls' = Replace(i, LoadSuccess(calls[i], state))
  /\ UNCHANGED <<written, libraryVars, functionVars, rendererVars>>

\* handleGetCurrentDat
handleGetCurrentDat ==
  /\ CanStart
  /\ calls' = Append(calls, Returned(Call("getCurrent", "start"),
                                     IF loadedDat.loaded
                                     THEN [loaded |-> TRUE, data |-> buildLoadedPayload(loadedDat)]
                                     ELSE [loaded |-> FALSE]))
  /\ UNCHANGED <<loadedDat, written, libraryVars, functionVars, rendererVars>>

\* handlePreviewFilter: no await, the call returns in the step it starts.
handlePreviewFilter(regions, today) ==
  /\ CanStart
  /\ LET call == [Call("previewFilter", "start") EXCEPT !.regions = regions]
     IN IF ~loadedDat.loaded
        THEN /\ calls' = Append(calls, Returned(call, [success |-> FALSE, error |-> NoDatLoaded]))
             /\ UNCHANGED loadedDat
        ELSE \E filtered \in {runFilter(loadedDat, regions, today)} :
               LET ran == [call EXCEPT !.result = filtered, !.sourcePath = loadedDat.sourcePath]
               IN /\ loadedDat' = slotAfterFilter(loadedDat, filtered)
                  /\ calls' = Append(calls,
                       IF filtered.error # "none"
                       THEN Returned(ran, [success |-> FALSE, error |-> filtered.error])
                       ELSE Returned(ran, [success |-> TRUE, header |-> filtered.header,
                                           summary |-> filtered.summary,
                                           filename |-> filtered.filename]))
  /\ UNCHANGED <<written, libraryVars, functionVars, rendererVars>>

\* The runs explored hold one save request at most; previews and loads run
\* beside it.
NoSaveInProgress == \A i \in 1..Len(calls) : calls[i].kind # "saveFiltered"

\* handleSaveFiltered up to its first await: the filter runs, then the save
\* dialog is shown when the request names no target path, else the write starts.
handleSaveFiltered(regions, targetPath, today) ==
  /\ CanStart /\ NoSaveInProgress
  /\ LET call == [Call("saveFiltered", "start") EXCEPT !.regions = regions]
     IN IF ~loadedDat.loaded
        THEN /\ calls' = Append(calls, Returned(call, [success |-> FALSE, error |-> NoDatLoaded]))
             /\ UNCHANGED loadedDat
        ELSE \E filtered \in {runFilter(loadedDat, regions, today)} :
               LET ran == [call EXCEPT !.result = filtered, !.sourcePath = loadedDat.sourcePath]
               IN /\ loadedDat' = slotAfterFilter(loadedDat, filtered)
                  /\ calls' = Append(calls,
                       IF filtered.error # "none"
                       THEN Returned(ran, [success |-> FALSE, error |-> filtered.error])
                       ELSE IF Falsy(targetPath)
                       THEN [ran EXCEPT !.pc = "showSaveDialog"]
                       ELSE [ran EXCEPT !.pc = "writeFile", !.finalPath = targetPath])
  /\ UNCHANGED <<written, libraryVars, functionVars, rendererVars>>

\* The path the save dialog proposes: beside the source file of the slot.
defaultPath(call) == pathJoin(dirname(call.sourcePath), call.result.filename)

\* SaveDialogCloses that goes on to the write whatever the dialog's outcome
SaveDialogClosesIgnoringCancel(i, saveResult) ==
  /\ AllReplied /\ calls[i].pc = "showSaveDialog"
  /\ calls' = Replace(i, [calls[i] EXCEPT !.pc = "writeFile", !.finalPath = saveResult.filePath])
  /\ UNCHANGED <<loadedDat, written, libraryVars, functionVars, rendererVars>>

\* The save dialog closes: a cancel is answered as such, a path starts the write.
SaveDialogCloses(i, saveResult) ==
  /\ AllReplied /\ calls[i].pc = "showSaveDialog"
  /\ calls' = Replace(i, IF saveResult.canceled \/ Falsy(saveResult.filePath)
                         THEN Returned(calls[i], [success |-> FALSE, canceled |-> TRUE])
                         ELSE [calls[i] EXCEPT !.pc = "writeFile", !.finalPath = saveResult.filePath])
  /\ UNCHANGED <<loadedDat, written, libraryVars, functionVars, rendererVars>>

\* fs.writeFile settles: the file holds the serialized result, or the write
\* failed, left no file and is answered as an error.
WriteFileSettles(i, done) ==
  /\ AllReplied /\ calls[i].pc = "writeFile"
  /\ IF done
     THEN /\ written' = [path |-> calls[i].finalPath, data |-> calls[i].result.xml]
          /\ calls' = Replace(i, Returned(calls[i],
               [success |-> TRUE, savedPath |-> calls[i].finalPath,
                filename |-> basename(calls[i].finalPath),
                header |-> calls[i].result.header, summary |-> calls[i].result.summary]))
     ELSE /\ calls' = Replace(i, Returned(calls[i], [success |-> FALSE, error |-> EACCES]))
          /\ UNCHANGED written
  /\ UNCHANGED <<loadedDat, libraryVars, functionVars, rendererVars>>

\* The reply of a call that returned is sent to the renderer.
Deliver(i) ==
  /\ calls[i].pc = "done"
  /\ calls' = [j \in 1..(Len(calls) - 1) |-> IF j < i THEN calls[j] ELSE calls[j + 1]]
  /\ UNCHANGED <<loadedDat, written, libraryVars, functionVars, rendererVars>>

InitMain == LibraryIdle /\ MainIdle /\ FunctionIdle /\ RendererIdle

NextMain ==
  \/ handleOpenDat
  \/ \E i \in 1..Len(calls), dialogResult \in OpenDialogResults : OpenDialogCloses(i, dialogResult)
  \/ \E filePath \in SourcePaths \cup {<<>>} : handleLoadFromPath(filePath)
  \/ \E i \in 1..Len(calls) : AccessSettles(i)
  \/ \E i \in 1..Len(calls) : ReadFileSettles(i)
  \/ handleGetCurrentDat
  \/ \E regions \in MainSelections, today \in Dates : handlePreviewFilter(regions, today)
  \/ \E regions \in MainSelections, targetPath \in {Undefined, OutputPath}, today \in Dates :
       handleSaveFiltered(regions, targetPath, today)
  \/ \E i \in 1..Len(calls) :
       \E saveResult \in SaveDialogResults(IF calls[i].pc = "showSaveDialog"
                                           THEN defaultPath(calls[i]) ELSE <<>>) :
         SaveDialogCloses(i, saveResult)
  \/ \E i \in 1..Len(calls), done \in BOOLEAN : WriteFileSettles(i, done)
  \/ \E i \in 1..Len(calls) : Deliver(i)

SpecMain == InitMain /\ [][NextMain]_vars


(***************************************************************************)
(* Properties of the main process                                          *)
(***************************************************************************)

\* A response carries the field.
Has(response, field) == field \in DOMAIN response

\* Call i returns in this step.
Returns(i) ==
  /\ Len(calls') = Len(calls) /\ i \in 1..Len(calls)
  /\ calls[i].pc # "done" /\ calls'[i].pc = "done"

\* A new call is answered in the step that starts it.
AnsweredAtOnce == Len(calls') = Len(calls) + 1 /\ calls'[Len(calls')].pc = "done"

\* C12: the slot changes only in a step in which an open or load-from-path
\* call returns its payload, and it then holds the record of the file that
\* call read; every other step (a load that fails, a canceled dialog, a
\* preview, a save) leaves the slot as it was.
C12_SlotChangesOnLoadOnly ==
  [][/\ loadedDat' # loadedDat =>
          \E i \in 1..Len(calls) :
            /\ Returns(i)
            /\ calls[i].kind \in {"openDat", "loadFromPath"}
            /\ Has(calls'[i].response, "data")
            /\ loadedDat' = [loaded |-> TRUE, sourcePath |-> calls[i].filePath,
                             originalFilename |-> basename(calls[i].filePath),
                             parsed |-> parseDat(fileContent(calls[i].filePath))]
     /\ \A i \in 1..Len(calls) :
          (Returns(i) /\ ~Has(calls'[i].response, "data")) => loadedDat' = loadedDat
     /\ AnsweredAtOnce => loadedDat' = loadedDat]_vars

\* C12 witness: the slot holds the first document while a save waits for its
\* dialog and a load of the file that is no datafile has returned its error.
C12_Witness ==
  /\ loadedDat.loaded /\ loadedDat.sourcePath = PathA
  /\ Len(calls) = 2
  /\ calls[1].kind = "saveFiltered" /\ calls[1].pc = "showSaveDialog"
  /\ calls[2].kind = "loadFromPath" /\ calls[2].response = [success |-> FALSE, error |-> InvalidFormat]


\* C13: a file is written only in the step in which the write of a save call
\* settles, that call's filter succeeded and its target path is not empty, and
\* the file then holds that call's serialized result; a save answered without
\* a document or with NoMatches, a canceled save and a failed write leave the
\* written file as it was, and a cancel is answered with the canceled flag and
\* no error message.
C13_WritesAfterFilterAndPath ==
  [][/\ written' # written =>
          \E i \in 1..Len(calls) :
            /\ Returns(i)
            /\ calls[i].kind = "saveFiltered" /\ calls[i].pc = "writeFile"
            /\ calls[i].result.error = "none"
            /\ ~Falsy(calls[i].finalPath)
            /\ written' = [path |-> calls[i].finalPath, data |-> calls[i].result.xml]
            /\ calls'[i].response.success
     /\ \A i \in 1..Len(calls) :
          (Returns(i) /\ calls[i].pc = "showSaveDialog") =>
            /\ calls'[i].response = [success |-> FALSE, canceled |-> TRUE]
            /\ written' = written
     /\ (AnsweredAtOnce /\ calls'[Len(calls')].kind = "saveFiltered") =>
          /\ calls'[Len(calls')].response \in
               {[success |-> FALSE, error |-> NoDatLoaded], [success |-> FALSE, error |-> NoMatches]}
          /\ (calls'[Len(calls')].response.error = NoDatLoaded) <=> ~loadedDat.loaded
          /\ written' = written]_vars

\* C13 witness: a save is answered as canceled and no file was written.
C13_Witness ==
  /\ written = NothingWritten
  /\ \E i \in 1..Len(calls) :
       /\ calls[i].kind = "saveFiltered" /\ calls[i].pc = "done"
       /\ calls[i].result.error = "none"
       /\ calls[i].response = [success |-> FALSE, canceled |-> TRUE]


\* The call ran the filter.
Ran(call) == call.sourcePath # Undefined

\* Two calls ran the filter on the same loaded document with equal selections.
SameRequest(a, b) ==
  Ran(a) /\ Ran(b) /\ a.sourcePath = b.sourcePath /\ a.regions = b.regions

\* What a call's filter yielded: the error, or header, summary and filename.
Outcome(call) ==
  IF call.result.error # "none" THEN [error |-> call.result.error]
  ELSE [error |-> "none", header |-> call.result.header,
        summary |-> call.result.summary, filename |-> call.result.filename]

\* A step starts a preview or save call.
FilterRequested ==
  /\ Len(calls') = Len(calls) + 1
  /\ calls'[Len(calls')].kind \in {"previewFilter", "saveFiltered"}

\* C14 as claimed: preview and save calls on the same loaded document with
\* equal selections yield equal header, summary and filename.
C14_Original ==
  \A i, j \in 1..Len(calls) :
    SameRequest(calls[i], calls[j]) => Outcome(calls[i]) = Outcome(calls[j])

\* C14 as amended: a preview or save call leaves the slot as it was, also
\* when its filter fails, and calls on the same loaded document with equal
\* selections fail alike or yield equal summaries and header names, and equal
\* headers and filenames when the document has a version or date.
C14_FilterLeavesDocument ==
  /\ [][FilterRequested => loadedDat' = loadedDat]_vars
  /\ [](\A i, j \in 1..Len(calls) :
          SameRequest(calls[i], calls[j]) =>
            /\ calls[i].result.error = calls[j].result.error
            /\ calls[i].result.error = "none" =>
                 /\ calls[i].result.summary = calls[j].result.summary
                 /\ calls[i].result.header.name = calls[j].result.header.name
                 /\ calls[i].result.summary.versionLabel # Undefined =>
                      Outcome(calls[i]) = Outcome(calls[j]))

\* C14 witness: a preview is answered while a save of the same selection on
\* the same document waits for its dialog, and both yielded the same.
C14_Witness ==
  /\ Len(calls) = 2
  /\ calls[1].kind = "saveFiltered" /\ calls[1].pc = "showSaveDialog"
  /\ calls[2].kind = "previewFilter" /\ calls[2].pc = "done"
  /\ SameRequest(calls[1], calls[2])
  /\ calls[1].result.error = "none"
  /\ Outcome(calls[1]) = Outcome(calls[2])


(***************************************************************************)
(* Renderer: every change of the loaded document or of the selection runs  *)
(* the preview effect, which numbers a request and sends it; the responses *)
(* arrive in any order.                                                     *)
(***************************************************************************)

\* The most preview requests issued in a run.
MaxRequests == 2

\* The payloads of the loads the main process answers: of a payload the
\* renderer reads the region list.
PayloadA ==
  [loaded |-> TRUE, filePath |-> PathA, originalFilename |-> <<"a",".","d","a","t">>,
   regions |-> <<<<"U","n","k","n","o","w","n">>, <<"U","S","A">>>>]
PayloadB ==
  [loaded |-> TRUE, filePath |-> PathB, originalFilename |-> <<"b",".","d","a","t">>,
   regions |-> <<<<"E","u","r","o","p","e">>, <<"U","S","A">>>>]
LoadedPayloads == {PayloadA, PayloadB}

preferredDefaultRegions == <<<<"U","S","A">>, <<"W","o","r","l","d">>>>

includes(list, value) == \E i \in 1..Len(list) : list[i] = value

pickDefaultRegions(regions) ==
  SelectSeq(preferredDefaultRegions, LAMBDA region : includes(regions, region))

\* current.includes(region) ? current.filter((value) => value !== region) : [...current, region]
toggled(current, region) ==
  IF includes(current, region)
  THEN SelectSeq(current, LAMBDA value : value # region)
  ELSE Append(current, region)

\* The ways the promise of previewFilter(regions) settles: fulfilled with a
\* preview (of its header the name and of its summary the region label are
\* kept), fulfilled with a failure, with or without a message, or rejected.
PreviewOutcomes(regions) ==
  {[status |-> "fulfilled",
    response |-> [success |-> TRUE,
                  header |-> IF regions = <<>> THEN <<"X">>
                             ELSE <<"X"," ","(">> \o join(regions, <<","," ">>) \o <<")">>,
                  summary |-> createRegionLabel(regions),
                  filename |-> <<"X",".","d","a","t">>]],
   [status |-> "fulfilled", response |-> [success |-> FALSE, error |-> <<"N","o","M","a","t","c","h","e","s">>]],
   [status |-> "fulfilled", response |-> [success |-> FALSE]],
   [status |-> "rejected", reason |-> <<"c","l","o","s","e","d">>]}

\* What the then and catch callbacks of the latest request display.
displayed(outcome) ==
  IF outcome.status = "rejected"
  THEN [header |-> Null, summary |-> Null, filename |-> Null,
        error |-> <<"F","a","i","l","e","d"," ","t","o"," ","p","r","e","v","i","e","w"," ","f","i","l","t","e","r","e","d"," ","D","A","T",":"," ">> \o outcome.reason]
  ELSE IF outcome.response.success
  THEN [header |-> outcome.response.header, summary |-> outcome.response.summary,
        filename |-> outcome.response.filename, error |-> Null]
  ELSE [header |-> Null, summary |-> Null, filename |-> Null,
        error |-> IF "error" \in DOMAIN outcome.response THEN outcome.response.error
                  ELSE <<"U","n","a","b","l","e"," ","t","o"," ","p","r","e","v","i","e","w"," ","f","i","l","t","e","r","e","d"," ","D","A","T",".">>]

\* hydrateLoadedDat: a load was answered with its payload.
hydrateLoadedDat(data) ==
  /\ hydrated' = data
  /\ selection' = pickDefaultRegions(data.regions)
  /\ preview' = NoPreview
  /\ effectDue' = TRUE
  /\ UNCHANGED <<previewRequestId, pending, previewLoading, libraryVars, mainVars, functionVars>>

\* The open, drop and save handlers clear the error line when they start and
\* set it when their request fails.
setError(message) ==
  /\ preview' = [preview EXCEPT !.error = message]
  /\ UNCHANGED <<hydrated, selection, effectDue, previewRequestId, pending, previewLoading,
                 libraryVars, mainVars, functionVars>>

handleToggleRegion(region) ==
  /\ hydrated.loaded
  /\ selection' = toggled(selection, region)
  /\ effectDue' = TRUE
  /\ UNCHANGED <<hydrated, previewRequestId, pending, preview, previewLoading,
                 libraryVars, mainVars, functionVars>>

\* setSelectedRegions(loadedDat.regions): the same array is no state change.
handleSelectAll ==
  /\ hydrated.loaded
  /\ selection' = hydrated.regions
  /\ effectDue' = (effectDue \/ selection # hydrated.regions)
  /\ UNCHANGED <<hydrated, previewRequestId, pending, preview, previewLoading,
                 libraryVars, mainVars, functionVars>>

handleClearSelection ==
  /\ selection' = <<>>
  /\ effectDue' = TRUE
  /\ UNCHANGED <<hydrated, previewRequestId, pending, preview, previewLoading,
                 libraryVars, mainVars, functionVars>>

\* The preview effect: without a document it clears the preview, with one it
\* takes the next request id, raises the loading flag and sends the request.
PreviewEffect ==
  /\ effectDue
  /\ effectDue' = FALSE
  /\ IF ~hydrated.loaded
     THEN /\ preview' = [preview EXCEPT !.header = Null, !.summary = Null, !.filename = Null]
          /\ previewLoading' = FALSE
          /\ UNCHANGED <<previewRequestId, pending>>
     ELSE /\ previewRequestId < MaxRequests
          /\ previewRequestId' = previewRequestId + 1
          /\ previewLoading' = TRUE
          /\ pending' = pending \cup {[requestId |-> previewRequestId + 1, regions |-> selection, pc |-> "sent"]}
          /\ UNCHANGED preview
  /\ UNCHANGED <<hydrated, selection, libraryVars, mainVars, functionVars>>

\* then and catch with the guard left out: every response is displayed
SettlesUnguarded(sent, outcome) ==
  /\ sent \in pending /\ sent.pc = "sent"
  /\ pending' = (pending \ {sent}) \cup {[sent EXCEPT !.pc = "finally"]}
  /\ preview' = displayed(outcome)
  /\ UNCHANGED <<hydrated, selection, effectDue, previewRequestId, previewLoading,
                 libraryVars, mainVars, functionVars>>

\* The promise of a request settles: its then or catch callback runs, and
\* displays the outcome if no request was issued since.
Settles(sent, outcome) ==
  /\ sent \in pending /\ sent.pc = "sent"
  /\ pending' = (pending \ {sent}) \cup {[sent EXCEPT !.pc = "finally"]}
  /\ preview' = IF previewRequestId # sent.requestId THEN preview ELSE displayed(outcome)
  /\ UNCHANGED <<hydrated, selection, effectDue, previewRequestId, previewLoading,
                 libraryVars, mainVars, functionVars>>

\* The finally callback of a settled request runs in a later microtask: it
\* lowers the loading flag if no request was issued since.
Finally(sent) ==
  /\ sent \in pending /\ sent.pc = "finally"
  /\ pending' = pending \ {sent}
  /\ previewLoading' = IF previewRequestId = sent.requestId THEN FALSE ELSE previewLoading
  /\ UNCHANGED <<hydrated, selection, effectDue, previewRequestId, preview,
                 libraryVars, mainVars, functionVars>>

\* On mount nothing is loaded and the preview effect is due.
InitRenderer ==
  /\ LibraryIdle /\ MainIdle /\ FunctionIdle
  /\ hydrated = NoPayload /\ selection = <<>> /\ effectDue = TRUE /\ previewRequestId = 0
  /\ pending = {} /\ preview = NoPreview /\ previewLoading = FALSE

NextRenderer ==
  \/ \E data \in LoadedPayloads : hydrateLoadedDat(data)
  \/ \E message \in {Null, <<"N","o"," ","D","A","T"," ","f","i","l","e"," ","l","o","a","d","e","d",".">>} : setError(message)
  \/ \E region \in LabelSet(hydrated.regions) : handleToggleRegion(region)
  \/ handleSelectAll
  \/ handleClearSelection
  \/ PreviewEffect
  \/ \E sent \in pending : \E outcome \in PreviewOutcomes(sent.regions) : Settles(sent, outcome)
  \/ \E sent \in pending : Finally(sent)

SpecRenderer == InitRenderer /\ [][NextRenderer]_vars


(***************************************************************************)
(* Properties of the renderer                                              *)
(***************************************************************************)

\* The promise of the request settles in this step.
SettlesNow(sent) == sent \in pending /\ sent.pc = "sent" /\ sent \notin pending'

\* The finally callback of the request runs in this step.
CompletesNow(sent) == sent \in pending /\ sent.pc = "finally" /\ sent \notin pending'

\* No request was issued after this one.
Latest(sent) ==
  /\ sent.requestId = previewRequestId
  /\ \A other \in pending : other.requestId <= sent.requestId

\* C15: when the promise of a request settles, the displayed preview becomes
\* the display of one of its outcomes if the request is the latest issued and
\* stays as it was if it is not, whatever the order of the responses; and the
\* loading flag is lowered only by the finally callback of the latest request.
C15_LatestRequestOnly ==
  [][/\ \A sent \in pending :
          SettlesNow(sent) =>
            IF Latest(sent)
            THEN \E outcome \in PreviewOutcomes(sent.regions) : preview' = displayed(outcome)
            ELSE preview' = preview
     /\ (previewLoading /\ ~previewLoading') =>
          \E sent \in pending : CompletesNow(sent) /\ Latest(sent)
     /\ \A sent \in pending :
          (CompletesNow(sent) /\ ~Latest(sent)) => previewLoading' = previewLoading]_vars

\* C15 witness: two requests were issued with different selections, the
\* response of the second is displayed, and the response of the first has
\* arrived after it and was discarded.
C15_Witness ==
  /\ previewRequestId = 2
  /\ \E sent \in pending :
       /\ sent.requestId = 1 /\ sent.pc = "finally"
       /\ sent.regions # selection
  /\ \A sent \in pending : sent.requestId = 1
  /\ preview.summary = createRegionLabel(selection)
  /\ ~previewLoading


(***************************************************************************)
(* Serialization: the text the XML builder returns is put under the        *)
(* declaration and the DOCTYPE and rewritten twice.  The builder is a      *)
(* library: its text is any text over the pieces the rewriting looks at.   *)
(***************************************************************************)

\* The most pieces of a builder text.
MaxPieces == 3

\* the escaped apostrophe of the builder
APOS == <<"&","a","p","o","s",";">>

\* The positions at which the text holds the pattern.
occurrences(text, pattern) ==
  {i \in 1..Len(text) : startsWith(SubSeq(text, i, Len(text)), pattern)}

first(positions) == CHOOSE i \in positions : \A j \in positions : i <= j

\* xml.replace(/&apos;/g, "'"): the occurrences from left to right
RECURSIVE replaceApos(_)
replaceApos(text) ==
  IF occurrences(text, APOS) = {} THEN text
  ELSE LET i == first(occurrences(text, APOS))
       IN SubSeq(text, 1, i - 1) \o <<"'">> \o replaceApos(SubSeq(text, i + Len(APOS), Len(text)))

\* replaceApos without the g flag: the first occurrence only
replaceFirstApos(text) ==
  IF occurrences(text, APOS) = {} THEN text
  ELSE LET i == first(occurrences(text, APOS))
       IN SubSeq(text, 1, i - 1) \o <<"'">> \o SubSeq(text, i + Len(APOS), Len(text))

\* xml.replace(/&apos;/g, "'") as filterDatByRegions applies it
unescapeApostrophes(text) == replaceApos(text)

\* xml.replace(/\r?\n/g, '\r\n'): every line feed, with the carriage return
\* before it if there is one, becomes a carriage return and a line feed
RECURSIVE normalizeLineEndings(_)
normalizeLineEndings(text) ==
  IF occurrences(text, <<"\n">>) = {} THEN text
  ELSE LET i == first(occurrences(text, <<"\n">>))
           before == IF i > 1 /\ text[i - 1] = "\r" THEN i - 2 ELSE i - 1
       IN SubSeq(text, 1, before) \o <<"\r","\n">>
            \o normalizeLineEndings(SubSeq(text, i + 1, Len(text)))

\* The text filterDatByRegions returns for the text of the builder.
serialize(xmlContent) ==
  normalizeLineEndings(
    unescapeApostrophes(join(<<XML_DECLARATION, DATAFILE_DOCTYPE, xmlContent>>, <<"\n">>)))

\* The pieces of a builder text: the escaped apostrophe whole and in parts,
\* the line ends, and other text.
XmlPieces == {<<"&","a","p","o","s",";">>, <<"&">>, <<"a","p","o","s",";">>, <<"\n">>, <<"\r">>, <<"<","a",">">>}

\* The builder texts of at most MaxPieces pieces.
XmlContents == {Flatten(pieces) : pieces \in SeqsUpTo(XmlPieces, MaxPieces)}

InitXml ==
  /\ LibraryIdle /\ MainIdle /\ RendererIdle
  /\ input \in {[of |-> "serialize", xmlContent |-> text] : text \in XmlContents}
  /\ output = NoOutput

Serialize ==
  /\ input.of = "serialize" /\ output = NoOutput
  /\ output' = [of |-> "serialize", xml |-> serialize(input.xmlContent)]
  /\ UNCHANGED <<input, libraryVars, mainVars, rendererVars>>

NextXml == Serialize

SpecXml == InitXml /\ [][NextXml]_vars

\* The text holds the pattern at position i.
OccursAt(text, pattern, i) == startsWith(SubSeq(text, i, Len(text)), pattern)

\* C16: the serialized text begins with the declaration line and the DOCTYPE
\* line, holds no "&apos;", and each of its line feeds follows a carriage
\* return.
C16_SerializedText ==
  output.of = "serialize" =>
    /\ startsWith(output.xml, XML_DECLARATION \o <<"\r","\n">> \o DATAFILE_DOCTYPE \o <<"\r","\n">>)
    /\ \A i \in 1..Len(output.xml) : ~OccursAt(output.xml, <<"&","a","p","o","s",";">>, i)
    /\ \A i \in 1..Len(output.xml) :
         output.xml[i] = "\n" => (i > 1 /\ output.xml[i - 1] = "\r")

\* C16 witness: a builder text with two escaped apostrophes and a bare line
\* feed is serialized.
C16_Witness ==
  /\ output.of = "serialize"
  /\ input.xmlContent = <<"&","a","p","o","s",";","\n","&","a","p","o","s",";">>
  /\ output.xml = XML_DECLARATION \o <<"\r","\n">> \o DATAFILE_DOCTYPE \o <<"\r","\n","'","\r","\n","'">>


\* The selection string is a synonym or a canonical label.
Recognized(value) == ~Nullish(normalizeRegionToken(value))

\* The selection without the strings that are neither.
RecognizedOnly(selected) == SelectSeq(selected, Recognized)

\* C17 as claimed: a string of the selection that is neither a synonym nor a
\* canonical label is in no selectedRegions, region label or header name of
\* the result, and a selection of such strings only gives what the empty
\* selection gives.
C17_UnrecognizedDropped ==
  request.made =>
    /\ result.error = "none" =>
         /\ \A i \in 1..Len(result.summary.selectedRegions) :
              Recognized(result.summary.selectedRegions[i])
         /\ result.summary.regionLabel
              = createRegionLabel(canonicalSelections(RecognizedOnly(request.selectedRegions)))
         /\ result.header.name
              = filterDatByRegions(parsed, RecognizedOnly(request.selectedRegions),
                                   request.baseFilename, Today).header.name
    /\ RecognizedOnly(request.selectedRegions) = <<>> =>
         \E today \in Dates :
           result = filterDatByRegions(parsed, <<>>, request.baseFilename, today)


(***************************************************************************)
(* Selections in loose form: filterDatByRegions applied to selections of   *)
(* synonyms, canonical labels and repeats.                                 *)
(***************************************************************************)

MaxLoose == 3

\* Selection strings that normalizeRegionToken recognizes, loose and canonical.
LoosePool == {<<"u","s","a">>, <<"U",".","S",".">>, <<"p","a","l">>, <<"E","u","r","o","p","e">>, <<"U","S","A">>}

LooseDocuments ==
  {Document(HeaderFull, <<GameUSA, GameEuropeUSA>>), Document(HeaderExtras, <<GameUSA, GameNoRegion>>)}

InitSelection ==
  /\ LibraryIdle /\ MainIdle /\ RendererIdle
  /\ input \in {[of |-> "filterDatByRegions", xmlTree |-> document, selectedRegions |-> selected] :
                  document \in LooseDocuments, selected \in SeqsUpTo(LoosePool, MaxLoose)}
  /\ output = NoOutput

FilterLoose(today) ==
  /\ input.of = "filterDatByRegions" /\ output = NoOutput
  /\ \E document \in {parseDat(input.xmlTree)} :
       output' = [of |-> "filterDatByRegions", today |-> today,
                  result |-> filterDatByRegions(document, input.selectedRegions, Undefined, today)]
  /\ UNCHANGED <<input, libraryVars, mainVars, rendererVars>>

NextSelection == \E today \in Dates : FilterLoose(today)

SpecSelection == InitSelection /\ [][NextSelection]_vars

\* The canonical labels of a selection of recognized strings, each once, in
\* the order of their first occurrence.
CanonicalOnce(selected) == unique([i \in 1..Len(selected) |-> normalizeRegionToken(selected[i])])

\* C18: a selection of synonyms, canonical labels and repeats gives the
\* result of the selection of its canonical labels listed once each in the
\* order of first occurrence, and these labels are its selectedRegions.
C18_LooseSelectionEquivalent ==
  output.of = "filterDatByRegions" =>
    /\ output.result = filterDatByRegions(parseDat(input.xmlTree), CanonicalOnce(input.selectedRegions),
                                          Undefined, output.today)
    /\ output.result.error = "none" =>
         output.result.summary.selectedRegions = CanonicalOnce(input.selectedRegions)

\* C18 witness: "usa", "pal", "U.S." is selected and the result has the
\* selectedRegions USA, Europe and both entries.
C18_Witness ==
  /\ output.of = "filterDatByRegions" /\ output.result.error = "none"
  /\ input.selectedRegions = <<<<"u","s","a">>, <<"p","a","l">>, <<"U",".","S",".">>>>
  /\ output.result.summary.selectedRegions = <<<<"U","S","A">>, <<"E","u","r","o","p","e">>>>
  /\ Len(output.result.games) = 2


\* The text ends with the suffix.
endsWith(text, suffix) ==
  Len(suffix) <= Len(text) /\ SubSeq(text, Len(text) - Len(suffix) + 1, Len(text)) = suffix

\* The version labels a call may place in the description: the version field
\* of the header, else its date field, else the date of the call.
VersionLabels ==
  IF parsed.header.version # Undefined THEN {parsed.header.version}
  ELSE IF parsed.header.date # Undefined THEN {parsed.header.date}
  ELSE Dates

\* C19: the parsed document's versionLabel is the version field of the
\* header, else its date field, else nothing; the rebuilt description ends
\* with the version field in parentheses, else the date field, else the date
\* of the call in ISO calendar-date form.
C19_VersionLabel ==
  /\ parsed.error = "none" =>
       parsed.versionLabel = (IF parsed.header.version # Undefined THEN parsed.header.version
                              ELSE parsed.header.date)
  /\ (request.made /\ result.error = "none") =>
       /\ \E label \in VersionLabels :
            endsWith(result.header.description, <<" ","(">> \o label \o <<")">>)
       /\ result.summary.versionLabel = parsed.versionLabel

\* C19 witness: the header has neither a version nor a date and the rebuilt
\* description ends with the date of the call.
C19_Witness ==
  /\ request.made /\ result.error = "none"
  /\ parsed.header.version = Undefined /\ parsed.header.date = Undefined
  /\ parsed.versionLabel = Undefined
  /\ endsWith(result.header.description, <<" ","(">> \o Tomorrow \o <<")">>)


(***************************************************************************)
(* Region detection: extractRegions applied to names with several          *)
(* parenthesized groups.                                                   *)
(***************************************************************************)

MaxGroups == 3

\* The contents of the parenthesized groups of a name, each with the
\* canonical labels its tokens stand for.
GroupLabels ==
     (<<"U","S","A">> :> <<<<"U","S","A">>>>)
  @@ (<<"E","u","r","o","p","e",","," ","U","S","A">> :> <<<<"E","u","r","o","p","e">>, <<"U","S","A">>>>)
  @@ (<<"u","s","a"," ","&"," ","U",".","S",".">> :> <<<<"U","S","A">>>>)
  @@ (<<"j","p","n","/","F","o","o">> :> <<<<"J","a","p","a","n">>>>)
  @@ (<<"E","n",",","F","r">> :> <<>>)
  @@ (<<"D","i","s","c"," ","1">> :> <<>>)
  @@ (<<" ">> :> <<>>)

\* "A (g1) (g2) ..."
nameOfGroups(groups) ==
  <<"A">> \o Flatten([i \in 1..Len(groups) |-> <<" ","(">> \o groups[i] \o <<")">>])

\* The arguments of extractRegions: a name of at most MaxGroups groups, the
\* empty string, or no string.
RegionInputs ==
  {[of |-> "extractRegions", groups |-> groups, name |-> nameOfGroups(groups)] :
     groups \in SeqsUpTo(DOMAIN GroupLabels, MaxGroups)}
    \cup {[of |-> "extractRegions", groups |-> <<>>, name |-> text] : text \in {Undefined, <<>>}}

InitRegions ==
  /\ LibraryIdle /\ MainIdle /\ RendererIdle
  /\ input \in RegionInputs
  /\ output = NoOutput

ExtractRegions ==
  /\ input.of = "extractRegions" /\ output = NoOutput
  /\ output' = [of |-> "extractRegions", regions |-> extractRegions(input.name)]
  /\ UNCHANGED <<input, libraryVars, mainVars, rendererVars>>

NextRegions == ExtractRegions

SpecRegions == InitRegions /\ [][NextRegions]_vars

\* The positions of the groups of the name that stand for some label.
Yielding == {i \in 1..Len(input.groups) : GroupLabels[input.groups[i]] # <<>>}

\* C20: extractRegions returns the labels of the leftmost group that stands
\* for at least one canonical label, whatever the groups before it (which
\* stand for none) and after it hold, and nothing when no group stands for a
\* label.
C20_FirstYieldingGroupWins ==
  output.of = "extractRegions" =>
    IF Yielding = {} THEN output.regions = NoRegions
    ELSE LET winner == CHOOSE i \in Yielding : \A j \in Yielding : i <= j
         IN output.regions = [found |-> TRUE, list |-> GroupLabels[input.groups[winner]]]

\* C20 witness: in "A (Disc 1) (jpn/Foo) (Europe, USA)" the first group
\* stands for no label, and the result is Japan, the label of the second.
C20_Witness ==
  /\ output.of = "extractRegions"
  /\ input.name = <<"A"," ","(","D","i","s","c"," ","1",")"," ","(","j","p","n","/","F","o","o",")"," ","(","E","u","r","o","p","e",","," ","U","S","A",")">>
  /\ output.regions = [found |-> TRUE, list |-> <<<<"J","a","p","a","n">>>>]


(***************************************************************************)
(* Entries: normalizeGame applied to entries whose name, description and   *)
(* sub-records carry region tags or none.                                  *)
(***************************************************************************)

MaxRoms == 2

\* The texts of a name, a description or a sub-record name, each with the
\* canonical labels extractRegions finds in it.
TextLabels ==
     (<<"A">> :> <<>>)
  @@ (<<"A"," ","(","D","i","s","c"," ","1",")">> :> <<>>)
  @@ (<<"A"," ","(","U","S","A",")">> :> <<<<"U","S","A">>>>)
  @@ (<<"A"," ","(","E","u","r","o","p","e",","," ","u","s","a",")">> :> <<<<"E","u","r","o","p","e">>, <<"U","S","A">>>>)
  @@ (<<"A"," ","(","j","p","n",")">> :> <<<<"J","a","p","a","n">>>>)

\* A field of an entry: absent, or one of the texts.
Absent == [present |-> FALSE, text |-> <<>>]
FieldTexts == {Absent} \cup {[present |-> TRUE, text |-> text] : text \in DOMAIN TextLabels}

\* The names of the sub-records of an entry.
RomNames == {<<"A">>, <<"A"," ","(","U","S","A",")">>, <<"A"," ","(","j","p","n",")">>}

\* <game name=N><description>D</description><rom name=R1/>...</game>
rawGameOf(name, description, roms) ==
  LET romNode(r) == RawObject(<<Entry(<<"@","_","n","a","m","e">>, RawString(r))>>)
      romNodes == [i \in 1..Len(roms) |-> romNode(roms[i])]
  IN RawObject(
       (IF name.present THEN <<Entry(<<"@","_","n","a","m","e">>, RawString(name.text))>> ELSE <<>>)
       \o (IF description.present THEN <<Entry(<<"d","e","s","c","r","i","p","t","i","o","n">>, RawString(description.text))>> ELSE <<>>)
       \o (IF Len(roms) = 0 THEN <<>>
           ELSE IF Len(roms) = 1 THEN <<Entry(<<"r","o","m">>, romNodes[1])>>
           ELSE <<Entry(<<"r","o","m">>, RawArray(romNodes))>>))

GameInputs ==
  {[of |-> "normalizeGame", name |-> name, description |-> description, roms |-> roms,
    rawGame |-> rawGameOf(name, description, roms)] :
     name \in FieldTexts, description \in FieldTexts, roms \in SeqsUpTo(RomNames, MaxRoms)}

InitGame ==
  /\ LibraryIdle /\ MainIdle /\ RendererIdle
  /\ input \in GameInputs
  /\ output = NoOutput

NormalizeGame ==
  /\ input.of = "normalizeGame" /\ output = NoOutput
  /\ output' = [of |-> "normalizeGame", game |-> normalizeGame(input.rawGame)]
  /\ UNCHANGED <<input, libraryVars, mainVars, rendererVars>>

NextGame == NormalizeGame

SpecGame == InitGame /\ [][NextGame]_vars

\* The labels of the three sources of the entry, in the order they are tried.
SourceLabels ==
  <<IF input.name.present THEN TextLabels[input.name.text] ELSE <<>>,
    IF input.description.present THEN TextLabels[input.description.text] ELSE <<>>,
    IF Len(input.roms) > 0 THEN TextLabels[input.roms[1]] ELSE <<>>>>

\* C21: the regions of an entry are the labels of its name if it has any,
\* else those of its description if it has any, else those of the name of
\* its first sub-record, and no regions when none of the three has a label;
\* the labels of two sources are never merged.
C21_FirstSourceWins ==
  output.of = "normalizeGame" =>
    LET yielding == {i \in 1..3 : SourceLabels[i] # <<>>}
    IN IF yielding = {} THEN output.game.regions = <<>>
       ELSE output.game.regions = SourceLabels[CHOOSE i \in yielding : \A j \in yielding : i <= j]

\* C21 witness: the name has no tag, the description is tagged Europe and
\* usa and the first sub-record jpn: the regions are Europe and USA only.
C21_Witness ==
  /\ output.of = "normalizeGame"
  /\ input.name = [present |-> TRUE, text |-> <<"A"," ","(","D","i","s","c"," ","1",")">>]
  /\ input.description = [present |-> TRUE, text |-> <<"A"," ","(","E","u","r","o","p","e",","," ","u","s","a",")">>]
  /\ Len(input.roms) = 2 /\ input.roms[1] = <<"A"," ","(","j","p","n",")">>
  /\ output.game.regions = <<<<"E","u","r","o","p","e">>, <<"U","S","A">>>>


\* The labels the synonym table produces.
SynonymLabels == {REGION_SYNONYMS[k] : k \in DOMAIN REGION_SYNONYMS}

\* C22 as claimed: the region list of every entry of a parsed document has no
\* duplicates and holds labels of the synonym table only, and so never the
\* label Unknown, which is for availableRegions alone.
C22_EntryRegionsCanonical ==
  (parsed.error = "none" /\ ~request.made) =>
    \A g \in 1..Len(parsed.games) :
      LET regions == parsed.games[g].regions
      IN /\ \A i, j \in 1..Len(regions) : i < j => regions[i] # regions[j]
         /\ \A i \in 1..Len(regions) : regions[i] \in SynonymLabels
         /\ \A i \in 1..Len(regions) : regions[i] # DEFAULT_REGION


(***************************************************************************)
(* Descriptors: deriveDescriptors applied to header descriptions that the  *)
(* anchored pattern, the loose pattern, the word datfile or nothing fits.  *)
(***************************************************************************)

MaxTotal == 2

NoText == [found |-> FALSE, text |-> <<>>]
Text(text) == [found |-> TRUE, text |-> text]

\* What a description holds: the header name and the entry counts at which
\* the anchored pattern fits, with the text it captures at each; the text the
\* loose pattern captures; and whether the word datfile occurs in it.
DescriptionFacts ==
     (<<"X"," ","-"," ","D","i","s","c","s"," ","(","2",")">> :> [name |-> <<"X">>, anchored |-> (2 :> <<"D","i","s","c","s">>), loose |-> Text(<<"D","i","s","c","s">>), mentions |-> FALSE])
  @@ (<<"X"," ","-"," ","A"," ","-"," ","B"," ","(","2",")">> :> [name |-> <<"X">>, anchored |-> (2 :> <<"A"," ","-"," ","B">>), loose |-> Text(<<"B">>), mentions |-> FALSE])
  @@ (<<"X"," ","-"," ","A"," ","(","1",")"," ","-"," ","B"," ","(","2",")">> :> [name |-> <<"X">>, anchored |-> (1 :> <<"A">>) @@ (2 :> <<"A"," ","(","1",")"," ","-"," ","B">>), loose |-> Text(<<"A">>), mentions |-> FALSE])
  @@ (<<"Y"," ","-"," ","G","a","m","e","s"," ","(","2",")">> :> [name |-> <<"Y">>, anchored |-> (2 :> <<"G","a","m","e","s">>), loose |-> Text(<<"G","a","m","e","s">>), mentions |-> FALSE])
  @@ (<<"X","-","T","o","o","l","s","(","1",")">> :> [name |-> <<"X">>, anchored |-> (1 :> <<"T","o","o","l","s">>), loose |-> Text(<<"T","o","o","l","s">>), mentions |-> FALSE])
  @@ (<<"X"," ","-"," ","m","y"," ","D","A","T","F","I","L","E"," ","s","e","t"," ","(","2",")"," ","(","v","1",")">> :> [name |-> <<"X">>, anchored |-> (2 :> <<"m","y"," ","D","A","T","F","I","L","E"," ","s","e","t">>), loose |-> Text(<<"m","y"," ","D","A","T","F","I","L","E"," ","s","e","t">>), mentions |-> TRUE])
  @@ (<<"X"," ","-"," ","(","D","i","s","c",")"," ","(","2",")">> :> [name |-> <<"X">>, anchored |-> (2 :> <<"(","D","i","s","c",")">>), loose |-> NoText, mentions |-> FALSE])
  @@ (<<"X"," ","-"," ","D","i","s","c"," ","I","m","a","g","e","s"," ","(","1","2",")">> :> [name |-> <<"X">>, anchored |-> <<>>, loose |-> Text(<<"D","i","s","c"," ","I","m","a","g","e","s">>), mentions |-> FALSE])
  @@ (<<"X"," ","D","a","t","F","i","l","e"," ","c","o","l","l","e","c","t","i","o","n">> :> [name |-> <<"X">>, anchored |-> <<>>, loose |-> NoText, mentions |-> TRUE])
  @@ (<<"X"," ","s","t","u","f","f"," ","(","2",")">> :> [name |-> <<"X">>, anchored |-> <<>>, loose |-> NoText, mentions |-> FALSE])
  @@ (<<>> :> [name |-> <<"X">>, anchored |-> <<>>, loose |-> NoText, mentions |-> FALSE])

\* The captured texts that hold the word datfile or disc, whatever the case.
CollapsingTexts == {<<"D","i","s","c","s">>, <<"m","y"," ","D","A","T","F","I","L","E"," ","s","e","t">>, <<"(","D","i","s","c",")">>, <<"D","i","s","c"," ","I","m","a","g","e","s">>, <<"D","a","t","f","i","l","e">>}

\* The arguments of deriveDescriptors: a header with a name and one of the
\* descriptions or none, and an entry count up to MaxTotal.
DescriptorInputs ==
  {[of |-> "deriveDescriptors", header |-> [name |-> name, description |-> description],
    totalGames |-> totalGames] :
     name \in {<<"X">>, <<"Y">>}, description \in (DOMAIN DescriptionFacts) \cup {Undefined},
     totalGames \in 0..MaxTotal}

InitDescriptor ==
  /\ LibraryIdle /\ MainIdle /\ RendererIdle
  /\ input \in DescriptorInputs
  /\ output = NoOutput

DeriveDescriptors ==
  /\ input.of = "deriveDescriptors" /\ output = NoOutput
  /\ output' = [of |-> "deriveDescriptors",
                descriptors |-> deriveDescriptors(input.header, input.totalGames)]
  /\ UNCHANGED <<input, libraryVars, mainVars, rendererVars>>

NextDescriptor == DeriveDescriptors

SpecDescriptor == InitDescriptor /\ [][NextDescriptor]_vars

\* The descriptor the rules give in their order of priority.
ExpectedDescriptor ==
  LET facts == DescriptionFacts[Coalesce(input.header.description, <<>>)]
  IN IF facts.name = input.header.name /\ input.totalGames \in DOMAIN facts.anchored
     THEN facts.anchored[input.totalGames]
     ELSE IF facts.loose.found THEN facts.loose.text
     ELSE <<"D","a","t","f","i","l","e">>

\* C23: the derived descriptor is the capture of the anchored pattern when it
\* fits the header name and the entry count, else the capture of the loose
\* pattern, else "Datfile" (the word datfile occurs, or nothing fits); the
\* normalized descriptor is "Datfile" when the derived one holds datfile or
\* disc in any case, else the derived one.
C23_DescriptorPriority ==
  output.of = "deriveDescriptors" =>
    /\ output.descriptors.originalDescriptor = ExpectedDescriptor
    /\ output.descriptors.normalizedDescriptor =
         (IF ExpectedDescriptor \in CollapsingTexts THEN <<"D","a","t","f","i","l","e">>
          ELSE ExpectedDescriptor)

\* C23 witness: "X - A (1) - B (2)" with two entries: the anchored pattern
\* captures "A (1) - B" where the loose pattern would capture "A".
C23_Witness ==
  /\ output.of = "deriveDescriptors"
  /\ input.header.name = <<"X">> /\ input.totalGames = 2
  /\ input.header.description = <<"X"," ","-"," ","A"," ","(","1",")"," ","-"," ","B"," ","(","2",")">>
  /\ output.descriptors.originalDescriptor = <<"A"," ","(","1",")"," ","-"," ","B">>
  /\ output.descriptors.normalizedDescriptor = <<"A"," ","(","1",")"," ","-"," ","B">>


(***************************************************************************)
(* Filenames: deriveFilteredFilename applied to original filenames that    *)
(* fit the pattern "<prefix> - <descriptor> (<count>) <trailing>" or not.  *)
(***************************************************************************)

MaxFiltered == 2

\* What an original filename holds: its extension (".dat" when it has none),
\* whether the name without the extension fits the pattern, and the trailing
\* text after the count, trimmed.
FilenameFacts ==
     (<<"X"," ","-"," ","D","a","t","f","i","l","e"," ","(","2",")"," ","(","v","0",")",".","d","a","t">> :> [extension |-> <<".","d","a","t">>, fits |-> TRUE, trailing |-> <<"(","v","0",")">>])
  @@ (<<"X"," ","-"," ","D","a","t","f","i","l","e"," ","(","2",")",".","x","m","l">> :> [extension |-> <<".","x","m","l">>, fits |-> TRUE, trailing |-> <<>>])
  @@ (<<"X"," ","(","E","u","r","o","p","e",")"," ","-"," ","D","i","s","c","s"," ","(","1","0",")"," ","[","b","]">> :> [extension |-> <<".","d","a","t">>, fits |-> TRUE, trailing |-> <<"[","b","]">>])
  @@ (<<"v","1",".","2"," ","-"," ","S","e","t"," ","(","3",")",".","o","l","d",".","z","i","p">> :> [extension |-> <<".","z","i","p">>, fits |-> TRUE, trailing |-> <<".","o","l","d">>])
  @@ (<<"a"," ","-"," ","b"," ","(","c",")"," ","-"," ","d"," ","(","4",")"," ","t",".","d","a","t">> :> [extension |-> <<".","d","a","t">>, fits |-> TRUE, trailing |-> <<"t">>])
  @@ (<<"X"," ","-"," ","D","a","t","f","i","l","e",".","d","a","t">> :> [extension |-> <<".","d","a","t">>, fits |-> FALSE, trailing |-> <<>>])
  @@ (<<"g","a","m","e","s"," ","(","2",")",".","t","x","t">> :> [extension |-> <<".","t","x","t">>, fits |-> FALSE, trailing |-> <<>>])
  @@ (<<"g","a","m","e","s">> :> [extension |-> <<".","d","a","t">>, fits |-> FALSE, trailing |-> <<>>])
  @@ (<<".","d","a","t">> :> [extension |-> <<".","d","a","t">>, fits |-> FALSE, trailing |-> <<>>])
  @@ (<<>> :> [extension |-> <<".","d","a","t">>, fits |-> FALSE, trailing |-> <<>>])
  @@ (Undefined :> [extension |-> <<".","d","a","t">>, fits |-> FALSE, trailing |-> <<>>])

\* The arguments of deriveFilteredFilename.
FilenameInputs ==
  {[of |-> "deriveFilteredFilename", baseFilename |-> baseFilename,
    headerDescription |-> headerDescription, decoratedSystem |-> decoratedSystem,
    descriptorNormalized |-> <<"D","a","t","f","i","l","e">>, filteredCount |-> filteredCount,
    versionLabel |-> versionLabel] :
     baseFilename \in DOMAIN FilenameFacts,
     headerDescription \in {Undefined, <<>>, <<"X",":"," ","a","l","l"," ","/"," ","d","i","s","c","s">>},
     decoratedSystem \in {<<"X"," ","(","U","S","A",")">>, <<"A","/","B"," ","(","U","S","A",")">>},
     filteredCount \in 1..MaxFiltered,
     versionLabel \in {Undefined, <<>>, <<"v","1">>}}

InitFilename ==
  /\ LibraryIdle /\ MainIdle /\ RendererIdle
  /\ input \in FilenameInputs
  /\ output = NoOutput

DeriveFilteredFilename ==
  /\ input.of = "deriveFilteredFilename" /\ output = NoOutput
  /\ output' = [of |-> "deriveFilteredFilename",
                filename |-> deriveFilteredFilename(input.baseFilename, input.headerDescription,
                                                    input.decoratedSystem, input.descriptorNormalized,
                                                    input.filteredCount, input.versionLabel)]
  /\ UNCHANGED <<input, libraryVars, mainVars, rendererVars>>

NextFilename == DeriveFilteredFilename

SpecFilename == InitFilename /\ [][NextFilename]_vars

\* "<decorated name> - <normalized descriptor> (<filtered count>)"
RebuiltStem ==
  input.decoratedSystem \o <<" ","-"," ">> \o input.descriptorNormalized
    \o <<" ","(">> \o String(input.filteredCount) \o <<")">>

\* " (<version label>)"
VersionSuffix == <<" ","(">> \o input.versionLabel \o <<")">>

HasVersionLabel == input.versionLabel # Undefined /\ input.versionLabel # <<>>

HasDescription == input.headerDescription # Undefined /\ input.headerDescription # <<>>

\* C24 as claimed: under rules 1 and 3 the filename is the rebuilt text as it
\* stands, then the extension; under rule 2 it is the sanitized description.
C24_Original ==
  output.of = "deriveFilteredFilename" =>
    LET facts == FilenameFacts[input.baseFilename]
    IN IF facts.fits
       THEN output.filename =
              RebuiltStem
                \o (IF facts.trailing # <<>> THEN <<" ">> \o facts.trailing
                    ELSE IF HasVersionLabel THEN VersionSuffix ELSE <<>>)
                \o facts.extension
       ELSE IF HasDescription
       THEN output.filename = sanitizeFilename(input.headerDescription) \o facts.extension
       ELSE HasVersionLabel => output.filename = RebuiltStem \o VersionSuffix \o facts.extension

\* C24 as amended: the filename is, in this priority, (1) for an original
\* filename that fits the pattern, the sanitized rebuilt text followed by the
\* trailing text, or by the version label in parentheses when there is no
\* trailing text, or by nothing when there is no version label either; (2)
\* the sanitized header description; (3) the sanitized rebuilt text followed
\* by the version label in parentheses when there is one; each with the
\* extension of the original filename, ".dat" when it has none.
C24_FilenamePriority ==
  output.of = "deriveFilteredFilename" =>
    LET facts == FilenameFacts[input.baseFilename]
    IN output.filename =
         (IF facts.fits
          THEN sanitizeFilename(RebuiltStem
                                  \o (IF facts.trailing # <<>> THEN <<" ">> \o facts.trailing
                                      ELSE IF HasVersionLabel THEN VersionSuffix ELSE <<>>))
          ELSE IF HasDescription THEN sanitizeFilename(input.headerDescription)
          ELSE sanitizeFilename(RebuiltStem \o (IF HasVersionLabel THEN VersionSuffix ELSE <<>>)))
           \o facts.extension

\* C24 witness: the original filename "X - Datfile (2).xml" fits the pattern
\* without trailing text, the decorated name holds a slash, and the filename
\* is "A B (USA) - Datfile (1) (v1).xml" although a description exists.
C24_Witness ==
  /\ output.of = "deriveFilteredFilename"
  /\ input.baseFilename = <<"X"," ","-"," ","D","a","t","f","i","l","e"," ","(","2",")",".","x","m","l">>
  /\ input.headerDescription = <<"X",":"," ","a","l","l"," ","/"," ","d","i","s","c","s">>
  /\ input.decoratedSystem = <<"A","/","B"," ","(","U","S","A",")">> /\ input.filteredCount = 1 /\ input.versionLabel = <<"v","1">>
  /\ output.filename = <<"A"," ","B"," ","(","U","S","A",")"," ","-"," ","D","a","t","f","i","l","e"," ","(","1",")"," ","(","v","1",")",".","x","m","l">>


\* Call i awaits a read or a write of a file.
FileOperation(i) == calls[i].pc \in {"readFile", "writeFile"}

\* C25 as claimed: no two calls of the main process await a file read or a
\* file write at the same time.
C25_FileOperationsExclusive ==
  \A i, j \in 1..Len(calls) : (i # j /\ FileOperation(i)) => ~FileOperation(j)


\* The record a load assigns to the slot, for each file there is to read: its
\* path, its filename and its parsed document.
FileRecords ==
  [filePath \in {p \in SourcePaths : fileExists(p)} |->
     [loaded |-> TRUE, sourcePath |-> filePath, originalFilename |-> basename(filePath),
      parsed |-> parseDat(fileContent(filePath))]]

WholeRecord(filePath) == FileRecords[filePath]

\* Call i is a load that returns its payload in this step.
LoadCompletes(i) ==
  /\ Returns(i)
  /\ calls[i].kind \in {"openDat", "loadFromPath"}
  /\ Has(calls'[i].response, "data")

\* C26: the slot always holds the path, the filename and the parsed document
\* of one file; a load that completes with its payload assigns the record of
\* its own file whatever other loads are in flight, and leaves those as they
\* are; no other step assigns the slot.  So after overlapping loads the slot
\* holds the document of the load that completed last.
C26_LastCompletedLoadWins ==
  [][/\ loadedDat'.loaded => loadedDat' = WholeRecord(loadedDat'.sourcePath)
     /\ \A i \in 1..Len(calls) :
          LoadCompletes(i) =>
            /\ loadedDat' = WholeRecord(calls[i].filePath)
            /\ \A j \in 1..Len(calls) : j # i => calls'[j] = calls[j]
     /\ (\A i \in 1..Len(calls) : ~LoadCompletes(i)) => loadedDat' = loadedDat]_vars

\* C26 witness: two loads overlap; the load requested last, of the second
\* file, has completed and the slot holds its document while the load
\* requested first still reads the first file.
C26_Witness ==
  /\ Len(calls) = 2
  /\ calls[1].kind = "loadFromPath" /\ calls[1].filePath = PathA /\ calls[1].pc = "readFile"
  /\ calls[2].kind = "loadFromPath" /\ calls[2].filePath = PathB /\ calls[2].pc = "done"
  /\ loadedDat = WholeRecord(PathB)

====
